---- MODULE Spec2Model ----
(***************************************************************************)
(* A model of the translation-token core of croc-content: the key          *)
(* sanitizer and linter (utils/keyOptimizer.ts), the duplicate detector    *)
(* (utils/duplicateDetector.ts), the tree flattener (flattenJsons) and the *)
(* tree builders (utils/jsonBuilder.ts).                                   *)
(*                                                                         *)
(* A JavaScript string is a sequence of one-character strings, so that     *)
(* lowercasing, the regular-expression replacements, split('.') and        *)
(* join('.') are computed and not assumed.                                 *)
(***************************************************************************)
EXTENDS Integers, Sequences, FiniteSets, TLC

VARIABLES
    key,      \* keyOptimizer: the string handed to optimizeKey / analyzeKeyIssues
    opt,      \* keyOptimizer: optimizeKey(key)
    reopt,    \* keyOptimizer: optimizeKey(opt.optimized)
    issue,    \* keyOptimizer: analyzeKeyIssues(key)
    kpc,      \* keyOptimizer: which calls have returned
    translations,  \* duplicateDetector: the rows handed to findDuplicateValues
    duplicates,    \* duplicateDetector: findDuplicateValues(translations)
    dpc,           \* duplicateDetector: whether the call has returned
    files,    \* UploadView: the parsed JSON document of each language, or null
    flat,     \* flattenJsons(files.az, files.en, files.ru)
    dev,      \* buildDeveloperJson(flat.rows)
    reflat,   \* flattenJsons of the three subtrees of dev
    fpc,      \* flattener: which calls have returned
    tokens,   \* ExportView: the project's rows (Translation[])
    groups,   \* ExportView: the project's group extensions (GroupExtension[])
    devTree,  \* buildDeveloperJson: result, under construction and returned
    rowIx,    \* buildDeveloperJson: index of the row the loop is at
    langIx,   \* buildDeveloperJson: which of the row's three values is next
    figma,    \* buildFigmaJson(tokens, groups, figmaLang)
    figmaLang,  \* the language handed to buildFigmaJson
    bpc,      \* builders: which calls are running or have returned
    stored,       \* storage: the rows of the translations table, in insertion order
    storedExts,   \* storage: the rows of the group_extensions table
    minted,       \* storage: how many row ids have been generated
    listed,       \* App: the translations state, the in-memory list
    currentView,  \* App: 'translations' or 'upload'
    loading,      \* TableView: the fetch started on mount has not resolved
    channel,      \* TableView: realtime notifications not yet delivered
    uploadStatus, \* UploadView: how the last handleUpload ended
    selectedProjectId,  \* App: the project whose rows are shown
    fetches             \* TableView: the fetchTranslations calls in flight

keyVars == <<key, opt, reopt, issue, kpc>>
dupVars == <<translations, duplicates, dpc>>
flatVars == <<files, flat, dev, reflat, fpc>>
buildVars == <<tokens, groups, devTree, rowIx, langIx, figma, figmaLang, bpc>>
storeVars == <<stored, storedExts, minted, listed, currentView, loading, channel, uploadStatus>>
sessionVars == <<selectedProjectId, fetches>>
vars == <<keyVars, dupVars, flatVars, buildVars, storeVars, sessionVars>>

(***************************************************************************)
(* Bounds of the model.                                                    *)
(***************************************************************************)
MaxKeyLen == 4
MaxDupRows == 4
MaxMeta == 1
MaxDepth == 2
MaxBuildRows == 2
MaxGroupExts == 2
MaxStoreIds == 2
MaxPending == 1
MaxInFlight == 2

(***************************************************************************)
(* JavaScript values.                                                      *)
(***************************************************************************)
Null == [kind |-> "null"]
Undefined == [kind |-> "undefined"]
Str(s) == [kind |-> "str", s |-> s]
\* An object is the sequence of its own properties in insertion order.
Obj(ents) == [kind |-> "obj", ents |-> ents]
EmptyObj == Obj(<<>>)
Prop(k, v) == [k |-> k, v |-> v]
\* A TypeError raised by an operation.
Throw == [kind |-> "throw"]

\* 'k in o', for an object o.
Has(o, k) == \E i \in 1..Len(o.ents) : o.ents[i].k = k

\* o[k] (o?.[k] when o is not an object): undefined when there is none.
Get(o, k) ==
    IF o.kind = "obj" /\ Has(o, k)
    THEN o.ents[CHOOSE i \in 1..Len(o.ents) : o.ents[i].k = k].v
    ELSE Undefined

\* o[k] = v: an existing property keeps its place, a new one is appended.
Put(o, k, v) ==
    IF Has(o, k)
    THEN Obj([i \in 1..Len(o.ents) |-> IF o.ents[i].k = k THEN Prop(k, v) ELSE o.ents[i]])
    ELSE Obj(Append(o.ents, Prop(k, v)))

\* typeof v === 'object' (true of null)
TypeofObject(v) == v.kind \in {"obj", "null"}

\* The truth value of v: null, undefined and '' are falsy.
Truthy(v) == v.kind = "obj" \/ (v.kind = "str" /\ v.s # <<>>)

\* a || b
OrElse(a, b) == IF Truthy(a) THEN a ELSE b

(***************************************************************************)
(* String helpers.                                                         *)
(***************************************************************************)
RECURSIVE Concat(_)
Concat(ss) == IF ss = <<>> THEN <<>> ELSE Head(ss) \o Concat(Tail(ss))

IsPrefix(p, s) == Len(p) <= Len(s) /\ SubSeq(s, 1, Len(p)) = p

StringsUpTo(alphabet, n) == UNION {[1..k -> alphabet] : k \in 0..n}

(***************************************************************************)
(* utils/keyOptimizer.ts                                                   *)
(***************************************************************************)
FORBIDDEN_KEYWORDS == {
    <<"a","b","s","t","r","a","c","t">>, <<"a","s","s","e","r","t">>, <<"b","o","o","l","e","a","n">>, <<"b","r","e","a","k">>, <<"b","y","t","e">>, <<"c","a","s","e">>, <<"c","a","t","c","h">>, <<"c","h","a","r">>,
    <<"c","l","a","s","s">>, <<"c","o","n","s","t">>, <<"c","o","n","t","i","n","u","e">>, <<"d","e","f","a","u","l","t">>, <<"d","o">>, <<"d","o","u","b","l","e">>, <<"e","l","s","e">>, <<"e","n","u","m">>,
    <<"e","x","t","e","n","d","s">>, <<"f","i","n","a","l">>, <<"f","i","n","a","l","l","y">>, <<"f","l","o","a","t">>, <<"f","o","r">>, <<"g","o","t","o">>, <<"i","f">>, <<"i","m","p","l","e","m","e","n","t","s">>,
    <<"i","m","p","o","r","t">>, <<"i","n","s","t","a","n","c","e","o","f">>, <<"i","n","t">>, <<"i","n","t","e","r","f","a","c","e">>, <<"l","o","n","g">>, <<"n","a","t","i","v","e">>, <<"n","e","w">>, <<"n","u","l","l">>,
    <<"p","a","c","k","a","g","e">>, <<"p","r","i","v","a","t","e">>, <<"p","r","o","t","e","c","t","e","d">>, <<"p","u","b","l","i","c">>, <<"r","e","t","u","r","n">>, <<"s","h","o","r","t">>, <<"s","t","a","t","i","c">>,
    <<"s","t","r","i","c","t","f","p">>, <<"s","u","p","e","r">>, <<"s","w","i","t","c","h">>, <<"s","y","n","c","h","r","o","n","i","z","e","d">>, <<"t","h","i","s">>, <<"t","h","r","o","w">>, <<"t","h","r","o","w","s">>,
    <<"t","r","a","n","s","i","e","n","t">>, <<"t","r","y">>, <<"v","o","i","d">>, <<"v","o","l","a","t","i","l","e">>, <<"w","h","i","l","e">>,
    <<"a","s">>, <<"f","u","n">>, <<"i","n">>, <<"i","s">>, <<"o","b","j","e","c","t">>, <<"t","y","p","e","a","l","i","a","s">>, <<"t","y","p","e","o","f">>, <<"v","a","l">>, <<"v","a","r">>,
    <<"w","h","e","n">>, <<"c","o","m","p","a","n","i","o","n">>, <<"d","a","t","a">>, <<"s","e","a","l","e","d">>, <<"i","n","t","e","r","n","a","l">>, <<"o","p","e","n">>, <<"l","a","t","e","i","n","i","t">>,
    <<"i","n","l","i","n","e">>, <<"c","r","o","s","s","i","n","l","i","n","e">>, <<"n","o","i","n","l","i","n","e">>, <<"r","e","i","f","i","e","d">>, <<"s","u","s","p","e","n","d">>, <<"t","a","i","l","r","e","c">>,
    <<"v","a","r","a","r","g">>, <<"w","h","e","r","e">>, <<"i","t">>, <<"o","u","t">>, <<"d","y","n","a","m","i","c">>, <<"a","c","t","u","a","l">>, <<"e","x","p","e","c","t">>,
    <<"l","e","t">>, <<"f","u","n","c">>, <<"s","e","l","f">>, <<"t","r","u","e">>, <<"f","a","l","s","e">>, <<"n","i","l">>, <<"i","n","o","u","t">>, <<"i","n","i","t">>, <<"d","e","i","n","i","t">>,
    <<"s","u","b","s","c","r","i","p","t">>, <<"c","o","n","v","e","n","i","e","n","c","e">>, <<"r","e","q","u","i","r","e","d">>, <<"o","v","e","r","r","i","d","e">>, <<"m","u","t","a","t","i","n","g">>, <<"l","a","z","y">>,
    <<"w","e","a","k">>, <<"u","n","o","w","n","e","d">>, <<"o","p","t","i","o","n","a","l">>, <<"p","r","e","f","i","x">>, <<"p","o","s","t","f","i","x">>, <<"i","n","f","i","x">>, <<"o","p","e","r","a","t","o","r">>,
    <<"f","i","l","e","p","r","i","v","a","t","e">>, <<"r","e","t","h","r","o","w","s">>, <<"r","e","p","e","a","t">>, <<"g","u","a","r","d">>, <<"d","e","f","e","r">>, <<"f","a","l","l","t","h","r","o","u","g","h">>,
    <<"a","s","s","o","c","i","a","t","e","d","t","y","p","e">>, <<"p","r","o","t","o","c","o","l">>, <<"s","t","r","u","c","t">>, <<"e","x","t","e","n","s","i","o","n">>, <<"i","n","d","i","r","e","c","t">>, <<"g","e","t">>, <<"s","e","t">>,
    <<"w","i","l","l","s","e","t">>, <<"d","i","d","s","e","t">>, <<"a","n","y">>, <<"s","o","m","e">>,
    <<"a","u","t","o">>, <<"r","e","g","i","s","t","e","r">>, <<"e","x","t","e","r","n">>, <<"u","n","i","o","n">>, <<"s","i","g","n","e","d">>, <<"u","n","s","i","g","n","e","d">>, <<"s","i","z","e","o","f">>, <<"t","y","p","e","d","e","f">>,
    <<"i","d">>, <<"s","t","r","i","n","g">>, <<"l","a","y","o","u","t">>, <<"c","o","l","o","r">>, <<"s","t","y","l","e">>, <<"d","r","a","w","a","b","l","e">>, <<"m","e","n","u">>, <<"r","a","w">>, <<"x","m","l">>,
    <<"m","i","p","m","a","p">>, <<"n","a","m","e">>, <<"a","n","i","m">>, <<"a","n","i","m","a","t","o","r">>, <<"a","r","r","a","y">>, <<"a","t","t","r">>, <<"b","o","o","l">>, <<"d","i","m","e","n">>,
    <<"f","r","a","c","t","i","o","n">>, <<"i","n","t","e","g","e","r">>, <<"i","n","t","e","r","p","o","l","a","t","o","r">>, <<"p","l","u","r","a","l","s">>, <<"v","a","l","u","e","s">>, <<"f","o","n","t">>, <<"u","n","i","t">>,
    <<"t","y","p","e">>, <<"v","a","l","u","e">>, <<"k","e","y">>, <<"i","n","d","e","x">>, <<"i","t","e","m">>, <<"l","i","s","t">>, <<"m","a","p">>, <<"r","e","s","u","l","t">>, <<"e","r","r","o","r">>
    }

S_fix == <<"f","i","x","_">>
S_common_fix == <<"c","o","m","m","o","n","_","f","i","x","_">>

LowerLetters == {"a","b","c","d","e","f","g","h","i","j","k","l","m",
                 "n","o","p","q","r","s","t","u","v","w","x","y","z"}
Digits == {"0","1","2","3","4","5","6","7","8","9"}
Whitespace == {" ", "\t", "\n"}

\* String.prototype.toLowerCase, one character.
LowerChar(c) ==
    CASE c = "A" -> "a" [] c = "B" -> "b" [] c = "C" -> "c" [] c = "D" -> "d"
      [] c = "I" -> "i" [] c = "T" -> "t" [] c = "X" -> "x"
      [] OTHER -> c

ToLowerCase(s) == [i \in 1..Len(s) |-> LowerChar(s[i])]

\* s.replace(/C+/g, r) for a character class C and a replacement r of at
\* most one character: every maximal run of C characters becomes r.
RECURSIVE ReplaceRuns(_, _, _)
ReplaceRuns(s, class, r) ==
    IF s = <<>> THEN <<>>
    ELSE IF Head(s) \in class
         THEN IF Len(s) > 1 /\ s[2] \in class
              THEN ReplaceRuns(Tail(s), class, r)
              ELSE r \o ReplaceRuns(Tail(s), class, r)
         ELSE <<Head(s)>> \o ReplaceRuns(Tail(s), class, r)

\* s.replace(/[^a-z0-9_]/g, '')
StripInvalid(s) == SelectSeq(s, LAMBDA c : c \in LowerLetters \cup Digits \cup {"_"})

RECURSIVE TrimLeft(_)
TrimLeft(s) == IF s # <<>> /\ Head(s) = "_" THEN TrimLeft(Tail(s)) ELSE s

RECURSIVE TrimRight(_)
TrimRight(s) ==
    IF s # <<>> /\ s[Len(s)] = "_" THEN TrimRight(SubSeq(s, 1, Len(s) - 1)) ELSE s

\* s.replace(/^_+|_+$/g, '')
TrimUnderscores(s) == TrimRight(TrimLeft(s))

\* The chain of replacements of optimizeKey, before the prefixes.
Cleaned(k) ==
    TrimUnderscores(
        ReplaceRuns(
            StripInvalid(ReplaceRuns(ToLowerCase(k), Whitespace, <<"_">>)),
            {"_"}, <<"_">>))

\* A slip: the empty result is forgotten, only a leading digit is prefixed.
FixPrefixed_DigitOnly(r) == IF r # <<>> /\ r[1] \in Digits THEN S_fix \o r ELSE r

\* if (!result || /^[0-9]/.test(result)) result = 'fix_' + result
FixPrefixed(r) == IF r = <<>> \/ r[1] \in Digits THEN S_fix \o r ELSE r

\* A slip: the reserved-word test is forgotten.
CommonPrefixed_Never(r) == r

\* if (FORBIDDEN_KEYWORDS.has(result)) result = 'common_fix_' + result
CommonPrefixed(r) == IF r \in FORBIDDEN_KEYWORDS THEN S_common_fix \o r ELSE r

\* A slip: the change flag compares without regard to case.
optimizeKey_CaseBlind(k) ==
    LET result == CommonPrefixed(FixPrefixed(Cleaned(k)))
    IN  [optimized |-> result, wasChanged |-> ToLowerCase(k) # result]

optimizeKey(k) ==
    LET result == CommonPrefixed(FixPrefixed(Cleaned(k)))
    IN  [optimized |-> result, wasChanged |-> k # result]

\* String.prototype.split('.'): never empty, ''.split('.') is [''].
RECURSIVE Split(_)
Split(s) ==
    IF \A i \in 1..Len(s) : s[i] # "."
    THEN <<s>>
    ELSE LET i == CHOOSE j \in 1..Len(s) :
                      s[j] = "." /\ \A h \in 1..(j - 1) : s[h] # "."
         IN  <<SubSeq(s, 1, i - 1)>> \o Split(SubSeq(s, i + 1, Len(s)))

\* Array.prototype.join('.')
RECURSIVE Join(_)
Join(segs) ==
    IF segs = <<>> THEN <<>>
    ELSE IF Len(segs) = 1 THEN segs[1]
    ELSE segs[1] \o <<".">> \o Join(Tail(segs))

\* A slip: every segment is sanitized, not only the last.
analyzeKeyIssues_AllSegments(keyPath) ==
    LET segments == Split(keyPath)
        fixedSegments == [i \in 1..Len(segments) |-> optimizeKey(segments[i]).optimized]
        fixed == Join(fixedSegments)
    IN  IF fixed = keyPath THEN Null
        ELSE [kind |-> "issue", original |-> segments[Len(segments)],
              suggested |-> fixedSegments[Len(segments)], keyPath |-> fixed]

\* A slip: the issue carries the path as it is, the suggestion is not put
\* in place of the last segment.
analyzeKeyIssues_SamePath(keyPath) ==
    LET segments == Split(keyPath)
        lastSegment == segments[Len(segments)]
        o == optimizeKey(lastSegment)
    IN  IF ~o.wasChanged THEN Null
        ELSE [kind |-> "issue", original |-> lastSegment,
              suggested |-> o.optimized, keyPath |-> Join(segments)]

analyzeKeyIssues(keyPath) ==
    LET segments == Split(keyPath)
        lastSegment == segments[Len(segments)]
        o == optimizeKey(lastSegment)
        fixedSegments == SubSeq(segments, 1, Len(segments) - 1) \o <<o.optimized>>
    IN  IF ~o.wasChanged THEN Null
        ELSE [kind |-> "issue", original |-> lastSegment,
              suggested |-> o.optimized, keyPath |-> Join(fixedSegments)]

(***************************************************************************)
(* The inputs of the sanitizer and the linter: every string over           *)
(* KeyAlphabet of at most MaxKeyLen characters, and every reserved word,   *)
(* alone and under an ancestor segment.                                    *)
(***************************************************************************)
KeyAlphabet == {"i", "D", "1", "_", " ", "-", "."}

KeyPrefixes == {<<"i">>, <<"D", ".", "1">>, <<" ">>}

KeyInputs ==
    StringsUpTo(KeyAlphabet, MaxKeyLen)
        \cup FORBIDDEN_KEYWORDS
        \cup {g \o <<".">> \o w : g \in KeyPrefixes, w \in FORBIDDEN_KEYWORDS}

NotRun == [kind |-> "notrun"]

InitKey ==
    /\ key \in KeyInputs
    /\ opt = NotRun
    /\ reopt = NotRun
    /\ issue = NotRun
    /\ kpc = "input"

IdleKey ==
    /\ key = <<>>
    /\ opt = NotRun
    /\ reopt = NotRun
    /\ issue = NotRun
    /\ kpc = "idle"

\* optimizeKey(key)
Optimize ==
    /\ kpc = "input"
    /\ opt' = optimizeKey(key)
    /\ kpc' = "optimized"
    /\ UNCHANGED <<key, reopt, issue>>
    /\ UNCHANGED <<dupVars, flatVars, buildVars, storeVars, sessionVars>>

\* optimizeKey(optimizeKey(key).optimized)
Reoptimize ==
    /\ kpc = "optimized"
    /\ reopt' = optimizeKey(opt.optimized)
    /\ kpc' = "reoptimized"
    /\ UNCHANGED <<key, opt, issue>>
    /\ UNCHANGED <<dupVars, flatVars, buildVars, storeVars, sessionVars>>

\* analyzeKeyIssues(key)
Analyze ==
    /\ kpc = "input"
    /\ issue' = analyzeKeyIssues(key)
    /\ kpc' = "analyzed"
    /\ UNCHANGED <<key, opt, reopt>>
    /\ UNCHANGED <<dupVars, flatVars, buildVars, storeVars, sessionVars>>

\* no row is shown yet
InitAccept ==
    /\ key = <<>>
    /\ opt = NotRun
    /\ reopt = NotRun
    /\ issue = NotRun
    /\ kpc = "table"

\* the key paths the linter suggests for the key paths of S
SuggestedPaths(S) ==
    {analyzeKeyIssues(k).keyPath : k \in {x \in S : analyzeKeyIssues(x) # Null}}

\* the key paths a row can carry: one it is shown with, or one an accepted
\* fix gave it
AcceptPaths ==
    LET once == KeyInputs \cup SuggestedPaths(KeyInputs)
    IN  once \cup SuggestedPaths(once)

\* TableView issues: the memo from key path to analyzeKeyIssues(key path),
\* with the paths that have no issue kept as Null entries
issues == {<<k, analyzeKeyIssues(k)>> : k \in AcceptPaths}

\* issues.get(k)
IssueOf(k) == (CHOOSE p \in issues : p[1] = k)[2]

\* a row with key path k is rendered in the table, with its entry of issues
ShowRow(k) ==
    /\ kpc = "table"
    /\ key' = k
    /\ issue' = IssueOf(k)
    /\ kpc' = "analyzed"
    /\ UNCHANGED <<opt, reopt>>
    /\ UNCHANGED <<dupVars, flatVars, buildVars, storeVars, sessionVars>>

\* TableRow.acceptIssueFix on a row whose key path is key, accepted by
\* storage, and the row rendered again with the entry of its new key path
AcceptFix ==
    /\ kpc = "analyzed"
    /\ issue # Null
    /\ key' = issue.keyPath
    /\ issue' = IssueOf(issue.keyPath)
    /\ UNCHANGED <<opt, reopt, kpc>>
    /\ UNCHANGED <<dupVars, flatVars, buildVars, storeVars, sessionVars>>

(***************************************************************************)
(* types.ts: a Translation row, with the fields the core reads.            *)
(***************************************************************************)
Langs == <<"az", "en", "ru">>

Row(kp, az, en, ru, tt, fv) ==
    [key_path |-> kp, az_value |-> az, en_value |-> en, ru_value |-> ru,
     token_type |-> tt, figma_variable_id |-> fv]

\* t[`${lang}_value`]
ValueOf(t, lang) ==
    CASE lang = "az" -> t.az_value
      [] lang = "en" -> t.en_value
      [] lang = "ru" -> t.ru_value

(***************************************************************************)
(* utils/duplicateDetector.ts                                              *)
(***************************************************************************)
\* String.prototype.trim
RECURSIVE TrimStart(_)
TrimStart(s) == IF s # <<>> /\ Head(s) \in Whitespace THEN TrimStart(Tail(s)) ELSE s

RECURSIVE TrimEnd(_)
TrimEnd(s) ==
    IF s # <<>> /\ s[Len(s)] \in Whitespace THEN TrimEnd(SubSeq(s, 1, Len(s) - 1)) ELSE s

Trim(s) == TrimEnd(TrimStart(s))

\* if (!val || val.trim() === '') continue
Skipped(val) == val = Null \/ val.s = <<>> \/ Trim(val.s) = <<>>

\* A Map<string, string[]> is the sequence of its entries in insertion order.
MapHas(m, k) == \E i \in 1..Len(m) : m[i].value = k

MapGet(m, k) == m[CHOOSE i \in 1..Len(m) : m[i].value = k].keyPaths

\* a slip: setting an existing key moves the entry to the end
MapSet_Reinsert(m, k, v) ==
    Append(SelectSeq(m, LAMBDA e : e.value # k), [value |-> k, keyPaths |-> v])

\* Map.prototype.set: an existing key keeps its place.
MapSet(m, k, v) ==
    IF MapHas(m, k)
    THEN [i \in 1..Len(m) |-> IF m[i].value = k THEN [value |-> k, keyPaths |-> v] ELSE m[i]]
    ELSE Append(m, [value |-> k, keyPaths |-> v])

\* for (const t of translations) { ... valueMap.set(val, existing) }
RECURSIVE CollectValues(_, _, _)
CollectValues(ts, lang, valueMap) ==
    IF ts = <<>> THEN valueMap
    ELSE LET val == ValueOf(Head(ts), lang)
         IN  IF Skipped(val) THEN CollectValues(Tail(ts), lang, valueMap)
             ELSE LET existing == IF MapHas(valueMap, val.s)
                                  THEN MapGet(valueMap, val.s) ELSE <<>>
                  IN  CollectValues(Tail(ts), lang,
                          MapSet(valueMap, val.s, Append(existing, Head(ts).key_path)))

\* for (const [value, keyPaths] of valueMap) if (keyPaths.length > 1) push
RECURSIVE EmitGroups(_, _)
EmitGroups(valueMap, lang) ==
    IF valueMap = <<>> THEN <<>>
    ELSE LET e == Head(valueMap)
         IN  (IF Len(e.keyPaths) > 1
              THEN <<[value |-> e.value, language |-> lang, keyPaths |-> e.keyPaths]>>
              ELSE <<>>) \o EmitGroups(Tail(valueMap), lang)

findDuplicateValues(ts) ==
    Concat([l \in 1..Len(Langs) |->
               EmitGroups(CollectValues(ts, Langs[l], <<>>), Langs[l])])

(***************************************************************************)
(* The inputs of the duplicate detector: every list of at most MaxDupRows  *)
(* rows, each with one of two key paths (so that a key path can repeat)    *)
(* and a value in at most one language.                                    *)
(***************************************************************************)
DupPaths == {<<"a">>, <<"b">>}

DupRows ==
    {Row(p, Null, Null, Null, Null, Null) : p \in DupPaths}
    \cup {Row(p, Str(v), Null, Null, Null, Null) :
             p \in DupPaths, v \in {<<" ">>, <<"x">>, <<"y">>}}
    \cup {Row(p, Null, Str(v), Null, Null, Null) :
             p \in DupPaths, v \in {<<"x">>, <<"y">>}}
    \cup {Row(p, Null, Null, Str(v), Null, Null) :
             p \in DupPaths, v \in {<<"x">>, <<"y">>}}

InitDup ==
    /\ translations \in UNION {[1..n -> DupRows] : n \in 0..MaxDupRows}
    /\ duplicates = <<>>
    /\ dpc = "input"

IdleDup ==
    /\ translations = <<>>
    /\ duplicates = <<>>
    /\ dpc = "idle"

\* findDuplicateValues(translations)
Detect ==
    /\ dpc = "input"
    /\ duplicates' = findDuplicateValues(translations)
    /\ dpc' = "detected"
    /\ UNCHANGED translations
    /\ UNCHANGED <<keyVars, flatVars, buildVars, storeVars, sessionVars>>

(***************************************************************************)
(* The property names and type names the flattener and the builders use.   *)
(***************************************************************************)
K_value == <<"$","v","a","l","u","e">>
K_type == <<"$","t","y","p","e">>
K_extensions == <<"$","e","x","t","e","n","s","i","o","n","s">>
K_comfigma == <<"c","o","m",".","f","i","g","m","a">>
K_variableId == <<"v","a","r","i","a","b","l","e","I","d">>
S_string == <<"s","t","r","i","n","g">>
S_text == <<"t","e","x","t">>

(***************************************************************************)
(* flattenJsons (src/unnamed/part_001)                                     *)
(***************************************************************************)
\* rows: Map<string, FlatRow>, the sequence of its values in insertion order.
RowsHas(rows, kp) == \E i \in 1..Len(rows) : rows[i].key_path = kp

RowsGet(rows, kp) == rows[CHOOSE i \in 1..Len(rows) : rows[i].key_path = kp]

RowsSet(rows, kp, row) ==
    IF RowsHas(rows, kp)
    THEN [i \in 1..Len(rows) |-> IF rows[i].key_path = kp THEN row ELSE rows[i]]
    ELSE Append(rows, row)

\* groupExtensions: Map<string, GroupExt>, likewise.
ExtsHas(ges, gp) == \E i \in 1..Len(ges) : ges[i].group_path = gp

\* A slip: a group extension already recorded for the path is kept.
ExtsSet_KeepFirst(ges, gp, ge) ==
    IF ExtsHas(ges, gp) THEN ges ELSE Append(ges, ge)

ExtsSet(ges, gp, ge) ==
    IF ExtsHas(ges, gp)
    THEN [i \in 1..Len(ges) |-> IF ges[i].group_path = gp THEN ge ELSE ges[i]]
    ELSE Append(ges, ge)

\* existing[`${lang}_value`] = v
WithValue(row, lang, v) ==
    CASE lang = "az" -> [row EXCEPT !.az_value = v]
      [] lang = "en" -> [row EXCEPT !.en_value = v]
      [] lang = "ru" -> [row EXCEPT !.ru_value = v]

\* ext?.['com.figma']?.variableId
VariableIdOf(ext) == Get(Get(ext, K_comfigma), K_variableId)

\* A slip: the row is always started afresh, an existing row is not merged into.
MergeLeaf_Fresh(rows, currentPath, lang, child) ==
    LET existing == Row(currentPath, Null, Null, Null, Null, Null)
        valued == WithValue(existing, lang, Get(child, K_value))
        typed == [valued EXCEPT
                     !.token_type = OrElse(Get(child, K_type), existing.token_type)]
    IN  IF Truthy(Get(child, K_extensions))
        THEN [typed EXCEPT
                 !.figma_variable_id =
                     OrElse(VariableIdOf(Get(child, K_extensions)),
                            existing.figma_variable_id)]
        ELSE typed

\* A slip: the operands of || are swapped, the variable id already stored wins.
MergeLeaf_FirstId(rows, currentPath, lang, child) ==
    LET existing == IF RowsHas(rows, currentPath)
                    THEN RowsGet(rows, currentPath)
                    ELSE Row(currentPath, Null, Null, Null, Null, Null)
        valued == WithValue(existing, lang, Get(child, K_value))
        typed == [valued EXCEPT
                     !.token_type = OrElse(Get(child, K_type), existing.token_type)]
    IN  IF Truthy(Get(child, K_extensions))
        THEN [typed EXCEPT
                 !.figma_variable_id =
                     OrElse(existing.figma_variable_id,
                            VariableIdOf(Get(child, K_extensions)))]
        ELSE typed

\* A slip: token_type is assigned the leaf's $type even when it has none.
MergeLeaf_TypeCleared(rows, currentPath, lang, child) ==
    LET existing == IF RowsHas(rows, currentPath)
                    THEN RowsGet(rows, currentPath)
                    ELSE Row(currentPath, Null, Null, Null, Null, Null)
        valued == WithValue(existing, lang, Get(child, K_value))
        typed == [valued EXCEPT
                     !.token_type = OrElse(Get(child, K_type), Null)]
    IN  IF Truthy(Get(child, K_extensions))
        THEN [typed EXCEPT
                 !.figma_variable_id =
                     OrElse(VariableIdOf(Get(child, K_extensions)),
                            existing.figma_variable_id)]
        ELSE typed

\* The leaf branch of flattenNode: the row of currentPath after merging child.
MergeLeaf(rows, currentPath, lang, child) ==
    LET existing == IF RowsHas(rows, currentPath)
                    THEN RowsGet(rows, currentPath)
                    ELSE Row(currentPath, Null, Null, Null, Null, Null)
        valued == WithValue(existing, lang, Get(child, K_value))
        typed == [valued EXCEPT
                     !.token_type = OrElse(Get(child, K_type), existing.token_type)]
    IN  IF Truthy(Get(child, K_extensions))
        THEN [typed EXCEPT
                 !.figma_variable_id =
                     OrElse(VariableIdOf(Get(child, K_extensions)),
                            existing.figma_variable_id)]
        ELSE typed

\* flattenNode, over the entries of node that are still to be visited;
\* m = [rows, groupExtensions] are the two maps it updates.
RECURSIVE FlattenEntries(_, _, _, _)
FlattenEntries(ents, pathPrefix, lang, m) ==
    IF ents = <<>> THEN m
    ELSE
      LET entryKey == Head(ents).k
          child == Head(ents).v
          currentPath == IF pathPrefix # <<>>
                         THEN pathPrefix \o <<".">> \o entryKey ELSE entryKey
      IN  IF entryKey = K_extensions \/ ~Truthy(child) \/ child.kind # "obj"
          THEN FlattenEntries(Tail(ents), pathPrefix, lang, m)
          ELSE IF Has(child, K_value)
          THEN FlattenEntries(Tail(ents), pathPrefix, lang,
                   [m EXCEPT !.rows = RowsSet(m.rows, currentPath,
                                         MergeLeaf(m.rows, currentPath, lang, child))])
          ELSE
            LET m1 == IF Truthy(Get(child, K_extensions))
                      THEN [m EXCEPT !.groupExtensions =
                               ExtsSet(m.groupExtensions, currentPath,
                                   [group_path |-> currentPath,
                                    extensions |-> Get(child, K_extensions)])]
                      ELSE m
            IN  FlattenEntries(Tail(ents), pathPrefix, lang,
                    FlattenEntries(child.ents, currentPath, lang, m1))

flattenNode(node, pathPrefix, lang, m) == FlattenEntries(node.ents, pathPrefix, lang, m)

\* if (json) flattenNode(json, '', lang, rows, groupExtensions)
FlattenLang(json, lang, m) == IF Truthy(json) THEN flattenNode(json, <<>>, lang, m) ELSE m

flattenJsons(azJson, enJson, ruJson) ==
    FlattenLang(ruJson, "ru",
        FlattenLang(enJson, "en",
            FlattenLang(azJson, "az", [rows |-> <<>>, groupExtensions |-> <<>>])))

(***************************************************************************)
(* utils/jsonBuilder.ts                                                    *)
(***************************************************************************)
\* A slip: an intermediate segment that holds a leaf token is overwritten
\* by a fresh object.
RECURSIVE SetAlong_Overwrite(_, _, _)
SetAlong_Overwrite(current, segs, value) ==
    IF current.kind # "obj" THEN Throw
    ELSE IF Len(segs) = 1 THEN Put(current, segs[1], value)
    ELSE LET seg == Head(segs)
             next == IF \/ ~Has(current, seg)
                        \/ ~TypeofObject(Get(current, seg))
                        \/ (Get(current, seg).kind = "obj" /\ Has(Get(current, seg), K_value))
                     THEN EmptyObj ELSE Get(current, seg)
             sub == SetAlong_Overwrite(next, Tail(segs), value)
         IN  IF sub = Throw THEN Throw ELSE Put(current, seg, sub)

\* The walk of setNestedValue from current along segs; the last segment
\* receives value.  'seg in current' and 'current[seg] = ...' raise a
\* TypeError when current is null.
RECURSIVE SetAlong(_, _, _)
SetAlong(current, segs, value) ==
    IF current.kind # "obj" THEN Throw
    ELSE IF Len(segs) = 1 THEN Put(current, segs[1], value)
    ELSE LET seg == Head(segs)
             next == IF ~Has(current, seg) \/ ~TypeofObject(Get(current, seg))
                     THEN EmptyObj ELSE Get(current, seg)
             sub == SetAlong(next, Tail(segs), value)
         IN  IF sub = Throw THEN Throw ELSE Put(current, seg, sub)

setNestedValue(obj, path, value) == SetAlong(obj, Split(path), value)

\* A slip: the group's node is assigned a fresh object holding $extensions.
RECURSIVE ExtendAlong_Fresh(_, _, _)
ExtendAlong_Fresh(current, segs, extensions) ==
    IF current.kind # "obj" THEN Throw
    ELSE IF segs = <<>> THEN Obj(<<Prop(K_extensions, extensions)>>)
    ELSE LET seg == Head(segs)
             next == IF ~Has(current, seg) \/ ~TypeofObject(Get(current, seg))
                     THEN EmptyObj ELSE Get(current, seg)
             sub == ExtendAlong_Fresh(next, Tail(segs), extensions)
         IN  IF sub = Throw THEN Throw ELSE Put(current, seg, sub)

\* The walk of applyGroupExtensions for one record: every segment is
\* descended into, then current.$extensions = extensions.
RECURSIVE ExtendAlong(_, _, _)
ExtendAlong(current, segs, extensions) ==
    IF current.kind # "obj" THEN Throw
    ELSE IF segs = <<>> THEN Put(current, K_extensions, extensions)
    ELSE LET seg == Head(segs)
             next == IF ~Has(current, seg) \/ ~TypeofObject(Get(current, seg))
                     THEN EmptyObj ELSE Get(current, seg)
             sub == ExtendAlong(next, Tail(segs), extensions)
         IN  IF sub = Throw THEN Throw ELSE Put(current, seg, sub)

RECURSIVE applyGroupExtensions(_, _)
applyGroupExtensions(obj, ges) ==
    IF obj = Throw \/ ges = <<>> THEN obj
    ELSE applyGroupExtensions(
             ExtendAlong(obj, Split(Head(ges).group_path), Head(ges).extensions),
             Tail(ges))

\* A slip: the type is passed through, "string" is not rewritten.
DeveloperType_NoRewrite(t) == t.token_type

\* t.token_type === 'string' ? 'text' : t.token_type
DeveloperType(t) == IF t.token_type = Str(S_string) THEN Str(S_text) ELSE t.token_type

DeveloperToken(t, lang) ==
    Obj(<<Prop(K_value, ValueOf(t, lang)), Prop(K_type, DeveloperType(t))>>)

\* if (t.xx_value != null) setNestedValue(result['Translations/XX'], ...)
PlaceDeveloper(tree, t, lang) ==
    IF tree = Throw \/ ValueOf(t, lang) \in {Null, Undefined} THEN tree
    ELSE setNestedValue(tree, t.key_path, DeveloperToken(t, lang))

\* The result of buildDeveloperJson, its three subtrees named by language;
\* Throw when a setNestedValue raised.
RECURSIVE DeveloperLoop(_, _)
DeveloperLoop(ts, result) ==
    IF ts = <<>> \/ result = Throw THEN result
    ELSE LET az == PlaceDeveloper(result.az, Head(ts), "az")
             en == IF az = Throw THEN Throw ELSE PlaceDeveloper(result.en, Head(ts), "en")
             ru == IF en = Throw THEN Throw ELSE PlaceDeveloper(result.ru, Head(ts), "ru")
         IN  IF ru = Throw THEN Throw
             ELSE DeveloperLoop(Tail(ts), [az |-> az, en |-> en, ru |-> ru])

buildDeveloperJson(ts) ==
    DeveloperLoop(ts, [az |-> EmptyObj, en |-> EmptyObj, ru |-> EmptyObj])

\* A slip: the Figma shape rewrites "string" to "text" as the merged shape does.
FigmaToken_Rewritten(t, lang) ==
    LET token == Obj(<<Prop(K_type, DeveloperType(t)), Prop(K_value, ValueOf(t, lang))>>)
    IN  IF Truthy(t.figma_variable_id)
        THEN Put(token, K_extensions,
                 Obj(<<Prop(K_comfigma,
                           Obj(<<Prop(K_variableId, t.figma_variable_id)>>))>>))
        ELSE token

\* A slip: $extensions is attached whether or not the row has a variable id.
FigmaToken_AlwaysExt(t, lang) ==
    Obj(<<Prop(K_type, t.token_type), Prop(K_value, ValueOf(t, lang)),
          Prop(K_extensions,
               Obj(<<Prop(K_comfigma, Obj(<<Prop(K_variableId, t.figma_variable_id)>>))>>))>>)

FigmaToken(t, lang) ==
    LET token == Obj(<<Prop(K_type, t.token_type), Prop(K_value, ValueOf(t, lang))>>)
    IN  IF Truthy(t.figma_variable_id)
        THEN Put(token, K_extensions,
                 Obj(<<Prop(K_comfigma,
                           Obj(<<Prop(K_variableId, t.figma_variable_id)>>))>>))
        ELSE token

RECURSIVE FigmaLoop(_, _, _)
FigmaLoop(ts, lang, result) ==
    IF ts = <<>> \/ result = Throw THEN result
    ELSE IF ValueOf(Head(ts), lang) \in {Null, Undefined}
         THEN FigmaLoop(Tail(ts), lang, result)
         ELSE FigmaLoop(Tail(ts), lang,
                  setNestedValue(result, Head(ts).key_path, FigmaToken(Head(ts), lang)))

buildFigmaJson(ts, ges, lang) ==
    applyGroupExtensions(FigmaLoop(ts, lang, EmptyObj), ges)

(***************************************************************************)
(* The documents handed to the flattener.  A leaf carries $value and at    *)
(* most MaxMeta of $type and $extensions; groups nest to MaxDepth.  The    *)
(* documents also hold what the flattener must skip (a scalar, a null, a   *)
(* root $extensions, the inside of a leaf) and property names with a dot.  *)
(***************************************************************************)
S_color == <<"c","o","l","o","r">>
Absent == <<>>
FlatValues == {Str(<<"X">>), Str(<<"Y">>), Null}
TypeOptions == {Absent, S_string, S_color}
IdOptions == {Absent, <<"v","1">>, <<"v","2">>}
FigmaExtensions(id) == Obj(<<Prop(K_comfigma, Obj(<<Prop(K_variableId, Str(id))>>))>>)
Note(n) == Obj(<<Prop(<<"n","o","t","e">>, Str(n))>>)
GroupExtOptions == {Absent, <<"1">>, <<"2">>}

Leaf(v, ty, id) ==
    Obj(<<Prop(K_value, v)>>
        \o (IF ty = Absent THEN <<>> ELSE <<Prop(K_type, Str(ty))>>)
        \o (IF id = Absent THEN <<>> ELSE <<Prop(K_extensions, FigmaExtensions(id))>>))

MetaCount(ty, id) == (IF ty = Absent THEN 0 ELSE 1) + (IF id = Absent THEN 0 ELSE 1)

Leaves ==
    {Leaf(v, m[1], m[2]) :
        v \in FlatValues,
        m \in {n \in TypeOptions \X IdOptions : MetaCount(n[1], n[2]) <= MaxMeta}}

PlainLeaves == {Leaf(v, Absent, Absent) : v \in FlatValues}

ChainKeys == <<"a", "b", "c", "d", "e">>

\* leaf under d - 1 nested groups, keyed a, b, c, ...
RECURSIVE Chain(_, _, _)
Chain(i, d, leaf) ==
    IF i = d THEN leaf ELSE Obj(<<Prop(<<ChainKeys[i + 1]>>, Chain(i + 1, d, leaf))>>)

Group(ext, children) ==
    Obj((IF ext = Absent THEN <<>> ELSE <<Prop(K_extensions, Note(ext))>>) \o children)

LeafX == Leaf(Str(<<"X">>), Absent, Absent)
LeafY == Leaf(Str(<<"Y">>), Absent, Absent)
K_a == <<"a">>
K_b == <<"b">>
K_a_b == <<"a", ".", "b">>

Documents ==
    {EmptyObj}
    \cup {Obj(<<Prop(K_a, l)>>) : l \in Leaves}
    \cup {Obj(<<Prop(K_a, Group(x, <<Prop(K_b, Chain(2, d, l))>>))>>) :
             x \in GroupExtOptions, d \in 2..MaxDepth, l \in PlainLeaves}
    \cup {Obj(<<Prop(K_a_b, l)>>) : l \in PlainLeaves}
    \cup {Obj(<<Prop(K_a_b, LeafX), Prop(K_a, LeafY)>>),
          Obj(<<Prop(K_a, LeafY), Prop(K_a_b, LeafX)>>),
          Obj(<<Prop(K_a, LeafX), Prop(K_b, LeafY)>>),
          Obj(<<Prop(K_a, Group(Absent, <<Prop(K_b, LeafX)>>)), Prop(K_a_b, LeafY)>>),
          Obj(<<Prop(K_a, Str(<<"s">>))>>),
          Obj(<<Prop(K_a, Null)>>),
          Obj(<<Prop(K_extensions, Obj(<<Prop(K_a, LeafX)>>))>>),
          Obj(<<Prop(K_a, Put(LeafX, K_b, LeafY))>>),
          Obj(<<Prop(K_a, Put(LeafX, K_type, Str(<<>>)))>>)}

InitFlat ==
    /\ files \in [az : Documents \cup {Null}, en : Documents \cup {Null},
                  ru : Documents \cup {Null}]
    /\ flat = NotRun
    /\ dev = NotRun
    /\ reflat = NotRun
    /\ fpc = "input"

IdleFlat ==
    /\ files = [az |-> Null, en |-> Null, ru |-> Null]
    /\ flat = NotRun
    /\ dev = NotRun
    /\ reflat = NotRun
    /\ fpc = "idle"

\* flattenJsons(files.az, files.en, files.ru)
Flatten ==
    /\ fpc = "input"
    /\ flat' = flattenJsons(files.az, files.en, files.ru)
    /\ fpc' = "flattened"
    /\ UNCHANGED <<files, dev, reflat>>
    /\ UNCHANGED <<keyVars, dupVars, buildVars, storeVars, sessionVars>>

\* buildDeveloperJson(rows)
BuildDeveloper ==
    /\ fpc = "flattened"
    /\ dev' = buildDeveloperJson(flat.rows)
    /\ fpc' = "built"
    /\ UNCHANGED <<files, flat, reflat>>
    /\ UNCHANGED <<keyVars, dupVars, buildVars, storeVars, sessionVars>>

\* flattenJsons(D['Translations/AZ'], D['Translations/EN'], D['Translations/RU'])
Reflatten ==
    /\ fpc = "built"
    /\ dev # Throw
    /\ reflat' = flattenJsons(dev.az, dev.en, dev.ru)
    /\ fpc' = "reflattened"
    /\ UNCHANGED <<files, flat, dev>>
    /\ UNCHANGED <<keyVars, dupVars, buildVars, storeVars, sessionVars>>

(***************************************************************************)
(* The inputs of the builders: every list of at most MaxBuildRows rows     *)
(* and every list of at most MaxGroupExts group extensions with distinct   *)
(* group paths (unique (project_id, group_path) in the schema).  The key   *)
(* paths nest in each other, one of them through a segment named $type;    *)
(* a row holds values in one, two or no language, with and without a type  *)
(* and a Figma variable id.                                                *)
(***************************************************************************)
K_a_type_b == <<"a", ".", "$", "t", "y", "p", "e", ".", "b">>
K_a_type == <<"a", ".", "$", "t", "y", "p", "e">>
BuildPaths == {K_a, K_a_b, K_a_type_b, K_b}

BuildRows ==
    UNION {{Row(p, Str(<<"X">>), Null, Null, Null, Null),
            Row(p, Str(<<"X">>), Str(<<"Y">>), Null, Str(S_string), Str(<<"v","1">>)),
            Row(p, Null, Str(<<"Y">>), Str(<<"Z">>), Str(S_color), Null),
            Row(p, Null, Null, Null, Null, Str(<<"v","1">>))} : p \in BuildPaths}

GroupExtension(gp, ext) == [group_path |-> gp, extensions |-> ext]

GroupRecords ==
    {GroupExtension(K_a, Note(<<"1">>)),
     GroupExtension(K_a_b, Note(<<"2">>)),
     GroupExtension(K_a_type, Note(<<"1">>))}

DistinctPaths(ges) ==
    \A i, j \in 1..Len(ges) : i # j => ges[i].group_path # ges[j].group_path

InitBuild ==
    /\ tokens \in UNION {[1..n -> BuildRows] : n \in 0..MaxBuildRows}
    /\ groups \in {ges \in UNION {[1..n -> GroupRecords] : n \in 0..MaxGroupExts} :
                      DistinctPaths(ges)}
    /\ devTree = [az |-> EmptyObj, en |-> EmptyObj, ru |-> EmptyObj]
    /\ rowIx = 1
    /\ langIx = 1
    /\ figma = NotRun
    /\ figmaLang = "az"
    /\ bpc = "input"

IdleBuild ==
    /\ tokens = <<>>
    /\ groups = <<>>
    /\ devTree = [az |-> EmptyObj, en |-> EmptyObj, ru |-> EmptyObj]
    /\ rowIx = 1
    /\ langIx = 1
    /\ figma = NotRun
    /\ figmaLang = "az"
    /\ bpc = "idle"

\* buildDeveloperJson, one of the three 'if (t.xx_value != null)
\* setNestedValue(...)' statements of the loop body: the one the loop is at.
\* A TypeError ends the call.
PlaceNext ==
    /\ bpc \in {"input", "developer"}
    /\ rowIx <= Len(tokens)
    /\ LET lang == Langs[langIx]
           placed == PlaceDeveloper(devTree[lang], tokens[rowIx], lang)
       IN  /\ devTree' = IF placed = Throw THEN Throw
                         ELSE [devTree EXCEPT ![lang] = placed]
           /\ bpc' = IF placed = Throw THEN "threw" ELSE "developer"
    /\ rowIx' = IF langIx = Len(Langs) THEN rowIx + 1 ELSE rowIx
    /\ langIx' = IF langIx = Len(Langs) THEN 1 ELSE langIx + 1
    /\ UNCHANGED <<tokens, groups, figma, figmaLang>>
    /\ UNCHANGED <<keyVars, dupVars, flatVars, storeVars, sessionVars>>

\* buildDeveloperJson: the loop is over, 'return result'
ReturnDeveloper ==
    /\ bpc \in {"input", "developer"}
    /\ rowIx > Len(tokens)
    /\ bpc' = "returned"
    /\ UNCHANGED <<tokens, groups, devTree, rowIx, langIx, figma, figmaLang>>
    /\ UNCHANGED <<keyVars, dupVars, flatVars, storeVars, sessionVars>>

\* buildFigmaJson(tokens, groups, lang)
ExportFigma(lang) ==
    /\ bpc = "input"
    /\ figma' = buildFigmaJson(tokens, groups, lang)
    /\ figmaLang' = lang
    /\ bpc' = "figma"
    /\ UNCHANGED <<tokens, groups, devTree, rowIx, langIx>>
    /\ UNCHANGED <<keyVars, dupVars, flatVars, storeVars, sessionVars>>

(***************************************************************************)
(* Storage and the table view.  One project is selected; its rows live in  *)
(* the translations table, its group extensions in the group_extensions    *)
(* table, and the table view shows the in-memory list.  Each handler is    *)
(* one step: its storage calls and the state it sets afterwards.           *)
(***************************************************************************)
\* types.ts Translation, of one project: a flattened row with the id and
\* the original_key that storage adds
StoredRow(id, r, orig) ==
    [id |-> id, key_path |-> r.key_path, az_value |-> r.az_value,
     en_value |-> r.en_value, ru_value |-> r.ru_value, token_type |-> r.token_type,
     figma_variable_id |-> r.figma_variable_id, original_key |-> orig]

\* insert ... on conflict (project_id, key_path) do update, for one row: the
\* columns the statement names are overwritten, id and original_key are not;
\* a new row gets a fresh id and the default original_key, null
UpsertRow(db, r, id) ==
    IF RowsHas(db, r.key_path)
    THEN [i \in 1..Len(db) |->
            IF db[i].key_path = r.key_path
            THEN StoredRow(db[i].id, r, db[i].original_key)
            ELSE db[i]]
    ELSE Append(db, StoredRow(id, r, Null))

\* how many rows of rs the table does not hold yet
RECURSIVE Fresh(_, _)
Fresh(db, rs) ==
    IF rs = <<>> THEN 0
    ELSE (IF RowsHas(db, Head(rs).key_path) THEN 0 ELSE 1) + Fresh(db, Tail(rs))

\* the upsert of a list of rows with pairwise distinct key paths
RECURSIVE UpsertRows(_, _, _)
UpsertRows(db, rs, n) ==
    IF rs = <<>> THEN db
    ELSE UpsertRows(UpsertRow(db, Head(rs), n + 1), Tail(rs),
                    IF RowsHas(db, Head(rs).key_path) THEN n ELSE n + 1)

\* insert ... on conflict (project_id, group_path) do update
RECURSIVE UpsertExts(_, _)
UpsertExts(db, ges) ==
    IF ges = <<>> THEN db
    ELSE UpsertExts(ExtsSet(db, Head(ges).group_path, Head(ges)), Tail(ges))

\* result.rows.filter((r) => r.key_path && r.key_path.trim() !== '')
UploadRows(rs) == SelectSeq(rs, LAMBDA r : r.key_path # <<>> /\ Trim(r.key_path) # <<>>)

\* unique (project_id, key_path): the update of row id to key path kp is
\* rejected when another row of the project holds kp
Rejected(db, id, kp) ==
    \E i \in 1..Len(db) : db[i].id # id /\ db[i].key_path = kp

\* update(fields).eq('id', id): the row with the id gets the named columns
UpdateWhereId(db, id, fields) ==
    [i \in 1..Len(db) |->
        IF db[i].id = id
        THEN [f \in DOMAIN db[i] |->
                IF f \in DOMAIN fields THEN fields[f] ELSE db[i][f]]
        ELSE db[i]]

\* delete from translations where id = ...
DeleteWhereId(db, id) == SelectSeq(db, LAMBDA t : t.id # id)

\* the characters of key paths in code point order, the order the query's
\* 'order by' is taken to follow
CodeOrder == <<
    " ", "$", "-", ".", "0", "1", "2", "3", "4", "5", "6", "7", "8",
    "9", "A", "B", "C", "D", "E", "F", "G", "H", "I", "J", "K", "L",
    "M", "N", "O", "P", "Q", "R", "S", "T", "U", "V", "W", "X", "Y",
    "Z", "_", "a", "b", "c", "d", "e", "f", "g", "h", "i", "j", "k",
    "l", "m", "n", "o", "p", "q", "r", "s", "t", "u", "v", "w", "x",
    "y", "z">>

CodeOf(c) == CHOOSE i \in 1..Len(CodeOrder) : CodeOrder[i] = c

RECURSIVE Before(_, _)
Before(p, q) ==
    IF p = <<>> THEN q # <<>>
    ELSE IF q = <<>> THEN FALSE
    ELSE IF Head(p) = Head(q) THEN Before(Tail(p), Tail(q))
    ELSE CodeOf(Head(p)) < CodeOf(Head(q))

RECURSIVE Inserted(_, _)
Inserted(sorted, t) ==
    IF sorted = <<>> THEN <<t>>
    ELSE IF Before(t.key_path, Head(sorted).key_path) THEN <<t>> \o sorted
    ELSE <<Head(sorted)>> \o Inserted(Tail(sorted), t)

\* select * from translations ... order by key_path
RECURSIVE OrderByKeyPath(_)
OrderByKeyPath(db) ==
    IF db = <<>> THEN <<>>
    ELSE Inserted(OrderByKeyPath(SubSeq(db, 1, Len(db) - 1)), db[Len(db)])

\* TableView.handleUpdate, and the realtime UPDATE callback
handleUpdate(prev, updated) ==
    [i \in 1..Len(prev) |-> IF prev[i].id = updated.id THEN updated ELSE prev[i]]

\* a slip: the key path held just before this rename, whatever
\* original_key already records
KeptOriginal_Latest(translation) == Str(translation.key_path)

\* translation.original_key || translation.key_path
KeptOriginal(translation) ==
    IF translation.original_key # Null /\ translation.original_key.s # <<>>
    THEN translation.original_key
    ELSE Str(translation.key_path)

\* the row a rename writes: { ...translation, key_path, original_key }
Renamed(translation, kp) ==
    [translation EXCEPT !.key_path = kp, !.original_key = KeptOriginal(translation)]

UpdateEvent(t) == [eventType |-> "UPDATE", id |-> t.id, new |-> t]
DeleteEvent(id) == [eventType |-> "DELETE", id |-> id, new |-> Null]

\* the realtime callback of TableView
OnPayload(prev, payload) ==
    IF payload.eventType = "INSERT" THEN Append(prev, payload.new)
    ELSE IF payload.eventType = "UPDATE" THEN handleUpdate(prev, payload.new)
    ELSE SelectSeq(prev, LAMBDA t : t.id # payload.id)

\* the notifications storage sends for an update of row id: none when no
\* row has the id
UpdateEvents(db, id) ==
    LET hit == SelectSeq(db, LAMBDA t : t.id = id)
    IN  [i \in 1..Len(hit) |-> UpdateEvent(hit[i])]

DeleteEvents(db, id) ==
    IF \E i \in 1..Len(db) : db[i].id = id THEN <<DeleteEvent(id)>> ELSE <<>>

K_A == <<"A">>
K_blank == <<" ">>
K_empty == <<>>

\* the files a user picks: a tree per language, or none
UploadTrees ==
    [az : {Null,
           Obj(<<Prop(K_a, LeafX)>>),
           Obj(<<Prop(K_A, LeafX)>>),
           Obj(<<Prop(K_empty, LeafX), Prop(K_blank, LeafY)>>),
           Obj(<<Prop(K_a, Group(<<"1">>, <<Prop(K_b, LeafX)>>))>>)},
     en : {Null},
     ru : {Null}]

\* files for some languages only, all with a token at key path a
SubsetTrees ==
    [az : {Null, Obj(<<Prop(K_a, LeafX)>>)},
     en : {Null, Obj(<<Prop(K_a, LeafY)>>)},
     ru : {Null}] \ {[az |-> Null, en |-> Null, ru |-> Null]}

\* what a user types into the key cell
EditValues == {K_empty, K_a, K_b}

\* the edits a user saves: a key cell with one of these values, or an az
\* cell cleared
Edits == {<<"key_path", v>> : v \in EditValues} \cup {<<"az_value", K_empty>>}

InitStore ==
    /\ stored = <<>>
    /\ storedExts = <<>>
    /\ minted = 0
    /\ listed = <<>>
    /\ currentView = "translations"
    /\ loading = TRUE
    /\ channel = <<>>
    /\ uploadStatus = "none"

IdleStore ==
    /\ stored = <<>>
    /\ storedExts = <<>>
    /\ minted = 0
    /\ listed = <<>>
    /\ currentView = "idle"
    /\ loading = FALSE
    /\ channel = <<>>
    /\ uploadStatus = "none"

\* TableView.fetchTranslations resolves: the query succeeded or failed
FetchTranslations(ok) ==
    /\ currentView = "translations"
    /\ loading
    /\ listed' = IF ok THEN OrderByKeyPath(stored) ELSE listed
    /\ loading' = FALSE
    /\ UNCHANGED <<stored, storedExts, minted, currentView, channel, uploadStatus>>
    /\ UNCHANGED <<keyVars, dupVars, flatVars, buildVars, sessionVars>>

\* the sidebar's Upload item: the table view unmounts and removes its channel
OpenUpload ==
    /\ currentView = "translations"
    /\ currentView' = "upload"
    /\ loading' = FALSE
    /\ channel' = <<>>
    /\ uploadStatus' = "none"
    /\ UNCHANGED <<stored, storedExts, minted, listed>>
    /\ UNCHANGED <<keyVars, dupVars, flatVars, buildVars, sessionVars>>

\* the sidebar's Translations item: the table view mounts, fetches and
\* subscribes
OpenTranslations ==
    /\ currentView = "upload"
    /\ currentView' = "translations"
    /\ loading' = TRUE
    /\ channel' = <<>>
    /\ UNCHANGED <<stored, storedExts, minted, listed, uploadStatus>>
    /\ UNCHANGED <<keyVars, dupVars, flatVars, buildVars, sessionVars>>

\* UploadView.handleUpload with the picked files (the button is disabled
\* unless hasAnyFile); transOk and geOk say whether storage accepts the two
\* upserts
HandleUpload(picked, transOk, geOk) ==
    /\ currentView = "upload"
    /\ \E l \in {"az", "en", "ru"} : picked[l] # Null
    /\ LET flattened == flattenJsons(picked.az, picked.en, picked.ru)
           uploaded == UploadRows(flattened.rows)
           groupExtensions == flattened.groupExtensions
           geFails == groupExtensions # <<>> /\ ~geOk
       IN  /\ minted + Fresh(stored, uploaded) <= MaxStoreIds
           /\ IF uploaded = <<>>
              THEN /\ uploadStatus' = "No translation tokens found"
                   /\ UNCHANGED <<stored, storedExts, minted, currentView, loading>>
              ELSE IF ~transOk
              THEN /\ uploadStatus' = "Upload failed"
                   /\ UNCHANGED <<stored, storedExts, minted, currentView, loading>>
              ELSE /\ stored' = UpsertRows(stored, uploaded, minted)
                   /\ minted' = minted + Fresh(stored, uploaded)
                   /\ IF geFails
                      THEN /\ uploadStatus' = "Upload failed"
                           /\ UNCHANGED <<storedExts, currentView, loading>>
                      ELSE /\ storedExts' = UpsertExts(storedExts, groupExtensions)
                           /\ uploadStatus' = "Successfully uploaded"
                           /\ currentView' = "translations"
                           /\ loading' = TRUE
    /\ UNCHANGED <<listed, channel>>
    /\ UNCHANGED <<keyVars, dupVars, flatVars, buildVars, sessionVars>>

\* a slip: onUpdate runs whether or not storage reported an error
RenameOutcome_Optimistic(db, prev, translation, newKeyPath) ==
    IF Rejected(db, translation.id, newKeyPath)
    THEN [error |-> TRUE, stored |-> db,
          listed |-> handleUpdate(prev, Renamed(translation, newKeyPath))]
    ELSE [error |-> FALSE,
          stored |-> UpdateWhereId(db, translation.id,
                         [key_path |-> newKeyPath,
                          original_key |-> KeptOriginal(translation)]),
          listed |-> handleUpdate(prev, Renamed(translation, newKeyPath))]

\* the rename both saveEdit and acceptIssueFix perform on the shown row
\* translation: the update by id and, unless storage reports an error,
\* onUpdate; the table and the list afterwards
RenameOutcome(db, prev, translation, newKeyPath) ==
    IF Rejected(db, translation.id, newKeyPath)
    THEN [error |-> TRUE, stored |-> db, listed |-> prev]
    ELSE [error |-> FALSE,
          stored |-> UpdateWhereId(db, translation.id,
                         [key_path |-> newKeyPath,
                          original_key |-> KeptOriginal(translation)]),
          listed |-> handleUpdate(prev, Renamed(translation, newKeyPath))]

Rename(translation, newKeyPath) ==
    LET outcome == RenameOutcome(stored, listed, translation, newKeyPath)
    IN  /\ stored' = outcome.stored
        /\ listed' = outcome.listed
        /\ channel' = channel \o (IF outcome.error THEN <<>>
                                  ELSE UpdateEvents(outcome.stored, translation.id))

\* TableRow.saveEdit on row i of the list, with the cell editing holding
\* editValue
SaveEdit(i, editing, editValue) ==
    /\ currentView = "translations"
    /\ ~loading
    /\ i \in 1..Len(listed)
    /\ Len(channel) < MaxPending
    /\ LET translation == listed[i]
           currentValue == IF editing = "key_path" THEN translation.key_path
                           ELSE OrElse(translation.az_value, Str(<<>>)).s
           written == IF editValue = <<>> THEN Null ELSE Str(editValue)
       IN  IF editValue = currentValue
           THEN UNCHANGED <<stored, listed, channel>>
           ELSE IF editing = "key_path"
           THEN Rename(translation, editValue)
           ELSE /\ stored' = UpdateWhereId(stored, translation.id, [az_value |-> written])
                /\ listed' = handleUpdate(listed, [translation EXCEPT !.az_value = written])
                /\ channel' = channel \o UpdateEvents(stored', translation.id)
    /\ UNCHANGED <<storedExts, minted, currentView, loading, uploadStatus>>
    /\ UNCHANGED <<keyVars, dupVars, flatVars, buildVars, sessionVars>>

\* TableRow.acceptIssueFix on row i of the list
AcceptIssueFix(i) ==
    /\ currentView = "translations"
    /\ ~loading
    /\ i \in 1..Len(listed)
    /\ Len(channel) < MaxPending
    /\ analyzeKeyIssues(listed[i].key_path) # Null
    /\ Rename(listed[i], analyzeKeyIssues(listed[i].key_path).keyPath)
    /\ UNCHANGED <<storedExts, minted, currentView, loading, uploadStatus>>
    /\ UNCHANGED <<keyVars, dupVars, flatVars, buildVars, sessionVars>>

\* TableView.deleteTranslation on row i of the list
DeleteTranslation(i) ==
    /\ currentView = "translations"
    /\ ~loading
    /\ i \in 1..Len(listed)
    /\ Len(channel) < MaxPending
    /\ stored' = DeleteWhereId(stored, listed[i].id)
    /\ listed' = SelectSeq(listed, LAMBDA t : t.id # listed[i].id)
    /\ channel' = channel \o DeleteEvents(stored, listed[i].id)
    /\ UNCHANGED <<storedExts, minted, currentView, loading, uploadStatus>>
    /\ UNCHANGED <<keyVars, dupVars, flatVars, buildVars, sessionVars>>

\* the realtime channel delivers its oldest notification
Deliver ==
    /\ currentView = "translations"
    /\ channel # <<>>
    /\ listed' = OnPayload(listed, Head(channel))
    /\ channel' = Tail(channel)
    /\ UNCHANGED <<stored, storedExts, minted, currentView, loading, uploadStatus>>
    /\ UNCHANGED <<keyVars, dupVars, flatVars, buildVars, sessionVars>>

(***************************************************************************)
(* The table view of one session while the user switches between projects  *)
(* and other sessions write to the tables.  A fetchTranslations call is in  *)
(* flight from its start until its response is handled; the query runs at  *)
(* some moment in between.  The realtime channel carries the changes of the *)
(* project it was subscribed for.                                           *)
(***************************************************************************)
Projects == {"A", "B"}

\* types.ts Translation: a row with its project_id
ProjectRow(pid, t) ==
    [f \in DOMAIN t \cup {"project_id"} |-> IF f = "project_id" THEN pid ELSE t[f]]

\* .eq('project_id', projectId)
RowsOfProject(db, pid) == SelectSeq(db, LAMBDA t : t.project_id = pid)

InsertEvent(t) == [eventType |-> "INSERT", id |-> t.id, new |-> t]

\* a fetchTranslations call for project pid: not yet run by storage, or run
\* with the rows it selected
FetchStarted(pid) == [project |-> pid, executed |-> FALSE, data |-> <<>>]

InitSession ==
    /\ stored = <<>>
    /\ storedExts = <<>>
    /\ minted = 0
    /\ listed = <<>>
    /\ currentView = "translations"
    /\ loading = TRUE
    /\ channel = <<>>
    /\ uploadStatus = "none"
    /\ selectedProjectId = "A"
    /\ fetches = {FetchStarted("A")}

IdleSession ==
    /\ selectedProjectId = "A"
    /\ fetches = {}

\* App.selectProject(id), and the effect of TableView that runs when
\* projectId changes: the old channel is removed, fetchTranslations starts
\* and a channel for the new project is subscribed
SelectProject(id) ==
    /\ currentView = "translations"
    /\ id # selectedProjectId
    /\ FetchStarted(id) \in fetches \/ Cardinality(fetches) < MaxInFlight
    /\ selectedProjectId' = id
    /\ listed' = <<>>
    /\ channel' = <<>>
    /\ loading' = TRUE
    /\ fetches' = fetches \cup {FetchStarted(id)}
    /\ UNCHANGED <<stored, storedExts, minted, currentView, uploadStatus>>
    /\ UNCHANGED <<keyVars, dupVars, flatVars, buildVars>>

\* storage runs the query of a fetch in flight
ExecuteFetch(f) ==
    /\ f \in fetches
    /\ ~f.executed
    /\ fetches' = (fetches \ {f}) \cup
                      {[f EXCEPT !.executed = TRUE,
                                 !.data = OrderByKeyPath(RowsOfProject(stored, f.project))]}
    /\ UNCHANGED storeVars
    /\ UNCHANGED selectedProjectId
    /\ UNCHANGED <<keyVars, dupVars, flatVars, buildVars>>

\* the response of a fetch arrives: 'if (!error && data) setTranslations(data)'
\* and setLoading(false)
ResolveFetch(f, ok) ==
    /\ f \in fetches
    /\ f.executed
    /\ fetches' = fetches \ {f}
    /\ listed' = IF ok THEN f.data ELSE listed
    /\ loading' = FALSE
    /\ UNCHANGED <<stored, storedExts, minted, currentView, channel, uploadStatus>>
    /\ UNCHANGED selectedProjectId
    /\ UNCHANGED <<keyVars, dupVars, flatVars, buildVars>>

\* the notification of a change to row t, on the channel of the session
\* when the row is of the project the channel filters on
Notified(t, payload) ==
    IF t.project_id = selectedProjectId THEN Append(channel, payload) ELSE channel

\* another session inserts a row with key path kp into project pid
RemoteInsert(pid, kp) ==
    /\ minted < MaxStoreIds
    /\ Len(channel) < MaxPending
    /\ ~RowsHas(RowsOfProject(stored, pid), kp)
    /\ LET t == ProjectRow(pid, StoredRow(minted + 1,
                        Row(kp, Str(<<"X">>), Null, Null, Null, Null), Null))
       IN  /\ stored' = Append(stored, t)
           /\ channel' = Notified(t, InsertEvent(t))
    /\ minted' = minted + 1
    /\ UNCHANGED <<storedExts, listed, currentView, loading, uploadStatus>>
    /\ UNCHANGED sessionVars
    /\ UNCHANGED <<keyVars, dupVars, flatVars, buildVars>>

\* another session sets the az value of row i of the table
RemoteUpdate(i) ==
    /\ i \in 1..Len(stored)
    /\ Len(channel) < MaxPending
    /\ stored[i].az_value # Str(<<"Y">>)
    /\ stored' = UpdateWhereId(stored, stored[i].id, [az_value |-> Str(<<"Y">>)])
    /\ channel' = Notified(stored[i], UpdateEvent(stored'[i]))
    /\ UNCHANGED <<storedExts, minted, listed, currentView, loading, uploadStatus>>
    /\ UNCHANGED sessionVars
    /\ UNCHANGED <<keyVars, dupVars, flatVars, buildVars>>

\* another session deletes row i of the table
RemoteDelete(i) ==
    /\ i \in 1..Len(stored)
    /\ Len(channel) < MaxPending
    /\ stored' = DeleteWhereId(stored, stored[i].id)
    /\ channel' = Notified(stored[i], DeleteEvent(stored[i].id))
    /\ UNCHANGED <<storedExts, minted, listed, currentView, loading, uploadStatus>>
    /\ UNCHANGED sessionVars
    /\ UNCHANGED <<keyVars, dupVars, flatVars, buildVars>>

NextKey == Optimize \/ Reoptimize \/ Analyze

InitKeySpec == InitKey /\ IdleDup /\ IdleFlat /\ IdleBuild /\ IdleStore /\ IdleSession

SpecKey == InitKeySpec /\ [][NextKey]_vars

\* the linter's fix accepted again and again, as long as there is one
NextAccept == (\E k \in KeyInputs : ShowRow(k)) \/ AcceptFix

InitAcceptSpec == InitAccept /\ IdleDup /\ IdleFlat /\ IdleBuild /\ IdleStore /\ IdleSession

\* a user who keeps accepting: an offered fix is eventually accepted
SpecAccept == InitAcceptSpec /\ [][NextAccept]_vars /\ WF_vars(AcceptFix)

NextDup == Detect

InitDupSpec == IdleKey /\ InitDup /\ IdleFlat /\ IdleBuild /\ IdleStore /\ IdleSession

SpecDup == InitDupSpec /\ [][NextDup]_vars

NextFlat == Flatten \/ BuildDeveloper \/ Reflatten

InitFlatSpec == IdleKey /\ IdleDup /\ InitFlat /\ IdleBuild /\ IdleStore /\ IdleSession

SpecFlat == InitFlatSpec /\ [][NextFlat]_vars

NextBuild == PlaceNext \/ ReturnDeveloper \/ \E lang \in {"az", "en", "ru"} : ExportFigma(lang)

InitBuildSpec == IdleKey /\ IdleDup /\ IdleFlat /\ InitBuild /\ IdleStore /\ IdleSession

SpecBuild == InitBuildSpec /\ [][NextBuild]_vars

NextStore ==
    \/ \E ok \in BOOLEAN : FetchTranslations(ok)
    \/ OpenUpload
    \/ OpenTranslations
    \/ \E picked \in UploadTrees, transOk \in BOOLEAN, geOk \in BOOLEAN :
          HandleUpload(picked, transOk, geOk)
    \/ \E i \in 1..MaxStoreIds, e \in Edits : SaveEdit(i, e[1], e[2])
    \/ \E i \in 1..MaxStoreIds : AcceptIssueFix(i)
    \/ \E i \in 1..MaxStoreIds : DeleteTranslation(i)
    \/ Deliver

InitStoreSpec == IdleKey /\ IdleDup /\ IdleFlat /\ IdleBuild /\ InitStore /\ IdleSession

SpecStore == InitStoreSpec /\ [][NextStore]_vars

\* uploads only, of files for one language, for two, and again
NextUpload ==
    \/ \E ok \in BOOLEAN : FetchTranslations(ok)
    \/ OpenUpload
    \/ OpenTranslations
    \/ \E picked \in UploadTrees \cup SubsetTrees, transOk \in BOOLEAN, geOk \in BOOLEAN :
          HandleUpload(picked, transOk, geOk)

SpecUpload == InitStoreSpec /\ [][NextUpload]_vars

NextSession ==
    \/ \E id \in Projects : SelectProject(id)
    \/ \E f \in fetches : ExecuteFetch(f)
    \/ \E f \in fetches, ok \in BOOLEAN : ResolveFetch(f, ok)
    \/ \E pid \in Projects, kp \in {K_a, K_b} : RemoteInsert(pid, kp)
    \/ \E i \in 1..MaxStoreIds : RemoteUpdate(i)
    \/ \E i \in 1..MaxStoreIds : RemoteDelete(i)
    \/ Deliver

InitSessionSpec == IdleKey /\ IdleDup /\ IdleFlat /\ IdleBuild /\ InitSession

SpecSession == InitSessionSpec /\ [][NextSession]_vars

(***************************************************************************)
(* Properties of the sanitizer and the linter.                             *)
(***************************************************************************)
\* The characters of s that survive the sanitizer's stripping: letters
\* (lowercased) and digits.
HasLetterOrDigit(s) ==
    \E i \in 1..Len(s) : LowerChar(s[i]) \in LowerLetters \cup Digits

\* ^[a-z][a-z0-9_]*$
MatchesIdentifier(s) ==
    /\ s # <<>>
    /\ s[1] \in LowerLetters
    /\ \A i \in 1..Len(s) : s[i] \in LowerLetters \cup Digits \cup {"_"}

\* C1: sanitizer idempotence: sanitizing the sanitized form of any string
\* (the empty string and strings that reduce to empty included) gives the
\* sanitized form again.
C1_Idempotent ==
    kpc = "reoptimized" => reopt.optimized = opt.optimized

\* C6: sanitizer totality: the sanitized form of every string is non-empty,
\* starts with a lowercase letter and holds only a-z, 0-9 and underscore;
\* a string with no letter and no digit (it reduces to empty) gives "fix_".
C6_Totality ==
    kpc = "optimized" =>
        /\ MatchesIdentifier(opt.optimized)
        /\ (~HasLetterOrDigit(key) => opt.optimized = S_fix)

C6_Witness ==
    /\ kpc = "optimized"
    /\ key # <<>>
    /\ ~HasLetterOrDigit(key)
    /\ opt.optimized = S_fix

\* The place of the last '.' of s, 0 when it has none.
LastDot(s) ==
    IF \E i \in 1..Len(s) : s[i] = "."
    THEN CHOOSE i \in 1..Len(s) : s[i] = "." /\ \A j \in (i + 1)..Len(s) : s[j] # "."
    ELSE 0

DotCount(s) == Cardinality({i \in 1..Len(s) : s[i] = "."})

\* C10: the linter touches only the last segment: analyzeKeyIssues(p) is
\* null exactly when sanitizing the last segment of p leaves it unchanged;
\* otherwise original is the last segment, suggested its sanitized form and
\* keyPath the ancestors of p verbatim (up to and including the last dot)
\* followed by the sanitized segment, with as many segments as p.
C10_LastSegmentOnly ==
    kpc = "analyzed" =>
        LET d == LastDot(key)
            ancestors == SubSeq(key, 1, d)
            last == SubSeq(key, d + 1, Len(key))
            sanitized == optimizeKey(last).optimized
        IN  /\ (issue = Null) <=> (sanitized = last)
            /\ issue # Null =>
                 /\ issue.original = last
                 /\ issue.suggested = sanitized
                 /\ issue.keyPath = ancestors \o sanitized
                 /\ DotCount(issue.keyPath) = DotCount(key)

\* An issue under an ancestor segment that the sanitizer would have changed.
C10_Witness ==
    /\ kpc = "analyzed"
    /\ issue # Null
    /\ LastDot(key) > 1
    /\ optimizeKey(SubSeq(key, 1, LastDot(key) - 1)).wasChanged
    /\ issue.keyPath # key
    /\ IsPrefix(SubSeq(key, 1, LastDot(key)), issue.keyPath)

(***************************************************************************)
(* Properties of the duplicate detector.                                   *)
(***************************************************************************)
SeqRange(s) == {s[i] : i \in 1..Len(s)}

LangSet == SeqRange(Langs)

\* The key paths of the rows whose value for language l is exactly v.
Holders(ts, l, v) ==
    {ts[i].key_path : i \in {j \in 1..Len(ts) : ValueOf(ts[j], l) = Str(v)}}

\* Every string some row holds in some language.
HeldValues(ts) ==
    UNION {{ValueOf(ts[i], l).s : l \in {m \in LangSet : ValueOf(ts[i], m) # Null}} :
              i \in 1..Len(ts)}

NotBlank(v) == \E i \in 1..Len(v) : v[i] \notin Whitespace

GroupsOf(ds, l, v) == {i \in 1..Len(ds) : ds[i].language = l /\ ds[i].value = v}

\* C5: duplicate detection: exactly one group per (language, value) whose
\* value is not null, empty or whitespace-only and is held by rows of at
\* least two distinct key paths in that language; every group lists at
\* least 2 distinct key paths; no group for a value held by fewer than two
\* key paths or shared only across languages.
C5_DuplicateGroups ==
    dpc = "detected" =>
        /\ \A l \in LangSet : \A v \in HeldValues(translations) :
               Cardinality(GroupsOf(duplicates, l, v)) =
                   IF NotBlank(v) /\ Cardinality(Holders(translations, l, v)) >= 2
                   THEN 1 ELSE 0
        /\ \A i \in 1..Len(duplicates) :
               /\ duplicates[i].value \in HeldValues(translations)
               /\ Cardinality(SeqRange(duplicates[i].keyPaths)) >= 2

(***************************************************************************)
(* Properties of the flattener.                                            *)
(***************************************************************************)
FileOf(l) == CASE l = "az" -> files.az [] l = "en" -> files.en [] l = "ru" -> files.ru

\* The leaf tokens of a document with their dotted paths: the objects that
\* carry $value, reached through objects that carry none, never through a
\* property named $extensions.
RECURSIVE FoundLeaves(_, _)
FoundLeaves(node, prefix) ==
    UNION {LET e == node.ents[i]
               path == IF prefix = <<>> THEN e.k ELSE prefix \o <<".">> \o e.k
           IN  IF e.k = K_extensions \/ e.v.kind # "obj" THEN {}
               ELSE IF Has(e.v, K_value) THEN {[path |-> path, leaf |-> e.v]}
               ELSE FoundLeaves(e.v, path) : i \in 1..Len(node.ents)}

LeavesOf(json) == IF json = Null THEN {} ELSE FoundLeaves(json, <<>>)

LeavesAt(json, p) == {f.leaf : f \in {g \in LeavesOf(json) : g.path = p}}

PathsOf(json) == {f.path : f \in LeavesOf(json)}

\* flattenJsons has returned; flat does not change afterwards.
Flattened == fpc = "flattened"

RowPaths(rows) == {rows[i].key_path : i \in 1..Len(rows)}

\* C4: flatten merge: exactly one row per dotted leaf path found in any of
\* the trees; the row's value for a language is the $value of the leaf at
\* that path in that language's tree, and null when that tree has no leaf
\* at the path.
C4_FlattenMerge ==
    Flattened =>
        /\ \A i, j \in 1..Len(flat.rows) :
               flat.rows[i].key_path = flat.rows[j].key_path => i = j
        /\ RowPaths(flat.rows) = UNION {PathsOf(FileOf(l)) : l \in LangSet}
        /\ \A i \in 1..Len(flat.rows) : \A l \in LangSet :
               LET found == LeavesAt(FileOf(l), flat.rows[i].key_path)
               IN  IF found = {} THEN ValueOf(flat.rows[i], l) = Null
                   ELSE ValueOf(flat.rows[i], l) \in {Get(f, K_value) : f \in found}

\* The merge example: az {a:{$value:X,$type:string}}, en {a:{$value:Y}}.
C4_Witness ==
    /\ fpc = "flattened"
    /\ files.az = Obj(<<Prop(K_a, Leaf(Str(<<"X">>), S_string, Absent))>>)
    /\ files.en = Obj(<<Prop(K_a, LeafY)>>)
    /\ files.ru = Null
    /\ flat.rows = <<Row(K_a, Str(<<"X">>), Str(<<"Y">>), Null, Str(S_string), Null)>>

\* The languages, in processing order, whose tree has at path p a leaf with
\* a non-empty com.figma variableId.
IdCarriers(p) ==
    SelectSeq(Langs, LAMBDA l :
        \E f \in LeavesAt(FileOf(l), p) : Truthy(VariableIdOf(Get(f, K_extensions))))

IdIn(l, p) ==
    VariableIdOf(Get(CHOOSE f \in LeavesAt(FileOf(l), p) :
                         Truthy(VariableIdOf(Get(f, K_extensions))), K_extensions))

TwoIds(p) ==
    \E i, j \in 1..Len(IdCarriers(p)) : IdIn(IdCarriers(p)[i], p) # IdIn(IdCarriers(p)[j], p)

RECURSIVE SegmentNames(_)
SegmentNames(node) ==
    UNION {LET e == node.ents[i]
           IN  IF e.k = K_extensions \/ e.v.kind # "obj" THEN {}
               ELSE IF Has(e.v, K_value) THEN {e.k}
               ELSE {e.k} \cup SegmentNames(e.v) : i \in 1..Len(node.ents)}

PlainNames(json) ==
    json # Null =>
        \A n \in SegmentNames(json) : n # <<>> /\ \A i \in 1..Len(n) : n[i] # "."

AllNull(r) == r.az_value = Null /\ r.en_value = Null /\ r.ru_value = Null

SameValues(r, s) ==
    r.az_value = s.az_value /\ r.en_value = s.en_value /\ r.ru_value = s.ru_value

\* token_type, with "string" become "text".
Rewritten(tt) == IF tt = Str(S_string) THEN Str(S_text) ELSE tt

\* C3, as claimed: flatten, build the merged shape, flatten again: the same
\* key paths, and per path the same three values and the same token_type
\* but for "string" become "text".
C3_RoundTrip ==
    fpc = "reflattened" =>
        /\ RowPaths(reflat.rows) = RowPaths(flat.rows)
        /\ \A i \in 1..Len(flat.rows) : \A j \in 1..Len(reflat.rows) :
               flat.rows[i].key_path = reflat.rows[j].key_path =>
                   /\ SameValues(flat.rows[i], reflat.rows[j])
                   /\ reflat.rows[j].token_type = Rewritten(flat.rows[i].token_type)

\* C3, amended: for trees whose property names are non-empty and hold no
\* dot, the second flattening has exactly the key paths of the rows that
\* have a non-null value in some language (a row whose three values are
\* null is not rebuilt), each with the same three values and the same
\* token_type but for "string" become "text".
C3_RoundTripOfValues ==
    (fpc = "reflattened" /\ \A l \in LangSet : PlainNames(FileOf(l))) =>
        /\ RowPaths(reflat.rows) =
               {flat.rows[i].key_path : i \in {k \in 1..Len(flat.rows) : ~AllNull(flat.rows[k])}}
        /\ \A i \in 1..Len(flat.rows) : \A j \in 1..Len(reflat.rows) :
               flat.rows[i].key_path = reflat.rows[j].key_path =>
                   /\ SameValues(flat.rows[i], reflat.rows[j])
                   /\ reflat.rows[j].token_type = Rewritten(flat.rows[i].token_type)

\* A typed row with values in two languages comes back, retyped.
C3_Witness ==
    /\ fpc = "reflattened"
    /\ \A l \in LangSet : PlainNames(FileOf(l))
    /\ \E i \in 1..Len(flat.rows) : \E j \in 1..Len(reflat.rows) :
           /\ flat.rows[i].key_path = reflat.rows[j].key_path
           /\ flat.rows[i].token_type = Str(S_string)
           /\ reflat.rows[j].token_type = Str(S_text)
           /\ flat.rows[i].az_value # Null
           /\ flat.rows[i].en_value # Null
           /\ flat.rows[i].az_value # flat.rows[i].en_value
           /\ flat.rows[i].ru_value = Null

(***************************************************************************)
(* Properties of the builders (SpecBuild).                                 *)
(***************************************************************************)
\* The value reached from node along segs through objects; undefined when
\* a segment is missing.
RECURSIVE GetPath(_, _)
GetPath(node, segs) ==
    IF segs = <<>> THEN node
    ELSE IF node.kind = "obj" /\ Has(node, Head(segs))
         THEN GetPath(Get(node, Head(segs)), Tail(segs))
         ELSE Undefined

ProperPrefix(p, q) == Len(p) < Len(q) /\ IsPrefix(p, q)

\* buildDeveloperJson is about to run a setNestedValue call.
Placing == bpc \in {"input", "developer"} /\ rowIx <= Len(tokens)

CurLang == Langs[langIx]

CurRow == tokens[rowIx]

\* Row j came earlier and its leaf token sits at its path in the tree of
\* the language being placed.
EarlierLeaf(j) ==
    /\ j < rowIx
    /\ ValueOf(tokens[j], CurLang) # Null
    /\ LET n == GetPath(devTree[CurLang], Split(tokens[j].key_path))
       IN  n.kind = "obj" /\ Get(n, K_value) = ValueOf(tokens[j], CurLang)

\* The row being placed has an intermediate segment at the leaf of row j.
Collides(j) ==
    /\ Placing
    /\ ValueOf(CurRow, CurLang) # Null
    /\ EarlierLeaf(j)
    /\ ProperPrefix(Split(tokens[j].key_path), Split(CurRow.key_path))

\* C7, as stated (of the calls that return): when a row's path has an
\* intermediate segment at which an earlier row of the same language placed
\* a leaf token, that leaf is replaced by a fresh object holding only the
\* nested child.
C7_LeafReplaced ==
    [][\A j \in 1..Len(tokens) :
          Collides(j) =>
              LET q == Split(tokens[j].key_path)
                  cur == Split(CurRow.key_path)
                  rest == SubSeq(cur, Len(q) + 1, Len(cur))
              IN  devTree' # Throw =>
                      GetPath(devTree'[CurLang], q)
                          = SetAlong(EmptyObj, rest, DeveloperToken(CurRow, CurLang))]_vars

\* C7, amended: in such a collision the leaf is kept.  When the call
\* returns, the leaf object is still at its segment with every property
\* other than the one named by the path's next segment unchanged, and the
\* new token is stored inside it; when the path is the leaf's path plus one
\* final segment no error is raised and the leaf only gains (or has
\* overwritten) that one property.
C7_LeafKept ==
    [][\A j \in 1..Len(tokens) :
          Collides(j) =>
              LET q == Split(tokens[j].key_path)
                  cur == Split(CurRow.key_path)
                  s == cur[Len(q) + 1]
                  before == GetPath(devTree[CurLang], q)
                  token == DeveloperToken(CurRow, CurLang)
              IN  /\ Len(cur) = Len(q) + 1 =>
                        /\ devTree' # Throw
                        /\ GetPath(devTree'[CurLang], q) = Put(before, s, token)
                  /\ devTree' # Throw =>
                        LET after == GetPath(devTree'[CurLang], q)
                        IN  /\ after.kind = "obj"
                            /\ \A i \in 1..Len(before.ents) :
                                  before.ents[i].k # s =>
                                      /\ Has(after, before.ents[i].k)
                                      /\ Get(after, before.ents[i].k) = before.ents[i].v
                            /\ GetPath(devTree'[CurLang], cur) = token]_vars

\* A leaf token that holds a nested leaf token: a collision has happened.
C7_Witness ==
    /\ bpc = "developer"
    /\ \E l \in {"az", "en", "ru"} :
          LET leaf == GetPath(devTree[l], <<K_a>>)
          IN  /\ leaf.kind = "obj"
              /\ Has(leaf, K_value)
              /\ Get(leaf, K_b).kind = "obj"
              /\ Has(Get(leaf, K_b), K_value)

\* C8: no core operation throws: buildDeveloperJson and buildFigmaJson
\* return a value and never raise an error, for every list of rows and
\* group extensions.
C8_NeverThrows == devTree # Throw /\ figma # Throw

\* The rows whose token buildFigmaJson placed and left in place before the
\* group extensions are applied.
PlacedLeaves(before) ==
    {i \in 1..Len(tokens) :
        /\ ValueOf(tokens[i], figmaLang) # Null
        /\ LET n == GetPath(before, Split(tokens[i].key_path))
               token == FigmaToken(tokens[i], figmaLang)
           IN  /\ n.kind = "obj"
               /\ \A k \in {K_type, K_value, K_extensions} : Get(n, k) = Get(token, k)}

\* The path of group extension g is a proper ancestor of a row path.
GroupOfRows(g) ==
    \E i \in 1..Len(tokens) :
        ProperPrefix(Split(groups[g].group_path), Split(tokens[i].key_path))

\* $type, $value and own $extensions of row i's token are as placed.
Undisturbed(i) ==
    LET n == GetPath(figma, Split(tokens[i].key_path))
        token == FigmaToken(tokens[i], figmaLang)
    IN  /\ n.kind = "obj"
        /\ \A k \in {K_type, K_value, K_extensions} : Get(n, k) = Get(token, k)

ExtensionsAt(g) ==
    LET n == GetPath(figma, Split(groups[g].group_path))
    IN  n.kind = "obj" /\ Get(n, K_extensions) = groups[g].extensions

\* C9, as stated (of the outputs buildFigmaJson returns): for every group
\* extension whose group_path is a proper ancestor of row paths, the output
\* has $extensions equal to the record's extensions at that path, and every
\* leaf token placed under that group is still present and unchanged.
C9_LeavesUntouched ==
    (bpc = "figma" /\ figma # Throw) =>
        \A g \in 1..Len(groups) :
            GroupOfRows(g) =>
                /\ ExtensionsAt(g)
                /\ \A i \in PlacedLeaves(FigmaLoop(tokens, figmaLang, EmptyObj)) :
                      ProperPrefix(Split(groups[g].group_path), Split(tokens[i].key_path))
                          => Undisturbed(i)

\* Some group extension's path is the leaf's own path or runs through it.
Reached(i) ==
    \E h \in 1..Len(groups) :
        IsPrefix(Split(tokens[i].key_path), Split(groups[h].group_path))

\* C9, amended: in the output of buildFigmaJson, for every group extension
\* whose group_path is a proper ancestor of row paths, $extensions at that
\* path equals the record's extensions, and every leaf token placed under
\* that group which no group extension's path reaches is still present
\* with $type, $value and own $extensions unchanged.
C9_ExtensionsPlaced ==
    (bpc = "figma" /\ figma # Throw) =>
        \A g \in 1..Len(groups) :
            GroupOfRows(g) =>
                /\ ExtensionsAt(g)
                /\ \A i \in PlacedLeaves(FigmaLoop(tokens, figmaLang, EmptyObj)) :
                      (/\ ProperPrefix(Split(groups[g].group_path),
                                       Split(tokens[i].key_path))
                       /\ ~Reached(i))
                          => Undisturbed(i)

\* A group extension sits above a placed leaf that carries its own
\* $extensions, and another one sits on a placed leaf.
C9_Witness ==
    /\ bpc = "figma"
    /\ figma # Throw
    /\ \E g \in 1..Len(groups), i, j \in PlacedLeaves(FigmaLoop(tokens, figmaLang, EmptyObj)) :
          /\ ProperPrefix(Split(groups[g].group_path), Split(tokens[i].key_path))
          /\ ~Reached(i)
          /\ Has(GetPath(figma, Split(tokens[i].key_path)), K_extensions)
          /\ ProperPrefix(Split(groups[g].group_path), Split(tokens[j].key_path))
          /\ Reached(j)

\* C11: the linter detects reserved collisions: for every reserved word w
\* and every ancestor prefix g, analyzeKeyIssues(g + "." + w) returns an
\* issue with suggested = "common_fix_" + w and
\* keyPath = g + ".common_fix_" + w.
C11_ReservedCollision ==
    kpc = "analyzed" =>
        \A n \in 1..Len(key) :
            (key[n] = "." /\ SubSeq(key, n + 1, Len(key)) \in FORBIDDEN_KEYWORDS) =>
                LET g == SubSeq(key, 1, n - 1)
                    w == SubSeq(key, n + 1, Len(key))
                IN  /\ issue # Null
                    /\ issue.original = w
                    /\ issue.suggested = S_common_fix \o w
                    /\ issue.keyPath = g \o <<".">> \o S_common_fix \o w

\* analyze("D.1.type") has returned D.1.common_fix_type
C11_Witness ==
    /\ kpc = "analyzed"
    /\ key = <<"D", ".", "1", ".", "t", "y", "p", "e">>
    /\ issue # Null
    /\ issue.keyPath = <<"D", ".", "1", ".">> \o S_common_fix \o <<"t", "y", "p", "e">>

\* C12: the change flag: optimizeKey(s).wasChanged is true if and only if
\* optimizeKey(s).optimized differs from s by exact, case-sensitive
\* comparison.
C12_ChangeFlag ==
    kpc = "optimized" => (opt.wasChanged <=> opt.optimized # key)

\* A string that differs from its sanitized form in case only is flagged.
C12_Witness ==
    /\ kpc = "optimized"
    /\ opt.wasChanged
    /\ key # opt.optimized
    /\ ToLowerCase(key) = opt.optimized

IsLeaf(n) == n.kind = "obj" /\ Has(n, K_value)

\* Every object with $value reached from node through objects.
RECURSIVE LeafNodes(_)
LeafNodes(node) ==
    IF node.kind # "obj" THEN {}
    ELSE (IF Has(node, K_value) THEN {node} ELSE {})
         \cup UNION {LeafNodes(node.ents[i].v) : i \in 1..Len(node.ents)}

\* The part of C13 about the object buildDeveloperJson returned: three
\* subtrees, no leaf at the path of a row without a value in the language
\* (unless another row of that path has one), no leaf with a null $value.
NullsOmitted ==
    /\ DOMAIN devTree = {"az", "en", "ru"}
    /\ \A l \in {"az", "en", "ru"} :
          /\ devTree[l].kind = "obj"
          /\ \A n \in LeafNodes(devTree[l]) : Get(n, K_value) # Null
          /\ \A i \in 1..Len(tokens) :
                (/\ ValueOf(tokens[i], l) = Null
                 /\ \A j \in 1..Len(tokens) :
                       ValueOf(tokens[j], l) # Null
                           => tokens[j].key_path # tokens[i].key_path)
                    => ~IsLeaf(GetPath(devTree[l], Split(tokens[i].key_path)))

\* C13: the merged shape omits null values: buildDeveloperJson always
\* returns an object with exactly the three top-level keys, and a row with
\* a null value for a language is absent from that language's subtree; no
\* null-valued leaf is emitted.
C13_MergedShape ==
    /\ bpc # "threw"
    /\ bpc = "returned" => NullsOmitted

Related(p, q) == IsPrefix(p, q) \/ IsPrefix(q, p)

\* Row i has a value in language l and no later row with a value in l
\* writes at, under or above its path: its leaf is the one in the output.
Unwritten(i, l) ==
    /\ ValueOf(tokens[i], l) # Null
    /\ \A j \in (i + 1)..Len(tokens) :
          ValueOf(tokens[j], l) # Null
              => ~Related(Split(tokens[i].key_path), Split(tokens[j].key_path))

\* No group extension's path runs through the leaf of row i to a deeper node.
NotExtendedThrough(i) ==
    \A h \in 1..Len(groups) :
        ~ProperPrefix(Split(tokens[i].key_path), Split(groups[h].group_path))

VariableExtensions(id) == Obj(<<Prop(K_comfigma, Obj(<<Prop(K_variableId, id)>>))>>)

\* The leaf of row i carries the variable-id $extensions exactly when the
\* row's figma_variable_id is set.
CarriesOwnId(i) ==
    LET n == GetPath(figma, Split(tokens[i].key_path))
    IN  /\ IsLeaf(n)
        /\ Get(n, K_value) = ValueOf(tokens[i], figmaLang)
        /\ IF Truthy(tokens[i].figma_variable_id)
           THEN Get(n, K_extensions) = VariableExtensions(tokens[i].figma_variable_id)
           ELSE ~Has(n, K_extensions)

\* No leaf at the path of a row without a value in the language, unless
\* another row of that path has one.
NoLeafOfNull(i) ==
    (/\ ValueOf(tokens[i], figmaLang) = Null
     /\ \A j \in 1..Len(tokens) :
           ValueOf(tokens[j], figmaLang) # Null
               => tokens[j].key_path # tokens[i].key_path)
        => ~IsLeaf(GetPath(figma, Split(tokens[i].key_path)))

\* C15, as stated: in the output of buildFigmaJson the leaf of a row with a
\* non-null value carries $extensions = {com.figma: {variableId}} exactly
\* when the row's figma_variable_id is set; rows with a null value produce
\* no leaf.
C15_VariableId ==
    (bpc = "figma" /\ figma # Throw) =>
        \A i \in 1..Len(tokens) :
            /\ (Unwritten(i, figmaLang) /\ NotExtendedThrough(i)) => CarriesOwnId(i)
            /\ NoLeafOfNull(i)

\* C15, amended: the same, unless a group extension's group_path is the
\* row's own key_path: then the leaf's $extensions is that record's
\* extensions, whether or not the row has a variable id.
C15_VariableIdUnlessGroup ==
    (bpc = "figma" /\ figma # Throw) =>
        \A i \in 1..Len(tokens) :
            /\ (Unwritten(i, figmaLang) /\ ~Reached(i)) => CarriesOwnId(i)
            /\ (Unwritten(i, figmaLang) /\ NotExtendedThrough(i)) =>
                  \A h \in 1..Len(groups) :
                      groups[h].group_path = tokens[i].key_path =>
                          LET n == GetPath(figma, Split(tokens[i].key_path))
                          IN  /\ IsLeaf(n)
                              /\ Get(n, K_extensions) = groups[h].extensions
            /\ NoLeafOfNull(i)

\* One leaf carries its row's variable id, and a row without a value in
\* the language has left nothing at its path.
C15_Witness ==
    /\ bpc = "figma"
    /\ figma # Throw
    /\ \E i, j \in 1..Len(tokens) :
          /\ Unwritten(i, figmaLang) /\ ~Reached(i)
          /\ Truthy(tokens[i].figma_variable_id)
          /\ Has(GetPath(figma, Split(tokens[i].key_path)), K_extensions)
          /\ ValueOf(tokens[j], figmaLang) = Null
          /\ GetPath(figma, Split(tokens[j].key_path)) = Undefined

\* The languages, in processing order, whose tree has at path p a leaf
\* that carries a $type (a non-empty one: an empty or null $type is none).
TypeCarriers(p) ==
    SelectSeq(Langs, LAMBDA l :
        \E f \in LeavesAt(FileOf(l), p) : Truthy(Get(f, K_type)))

TypesIn(l, p) ==
    {Get(f, K_type) : f \in {g \in LeavesAt(FileOf(l), p) : Truthy(Get(g, K_type))}}

\* C16: token_type is never cleared while flattening: a later leaf at the
\* same path without a $type leaves it unchanged and one with a $type
\* overwrites it; the final token_type is the $type of the last tree, in
\* the order az, en, ru, whose leaf carries one, and null if none does.
C16_TypeKept ==
    fpc = "flattened" =>
        \A i \in 1..Len(flat.rows) :
            LET p == flat.rows[i].key_path
                carriers == TypeCarriers(p)
            IN  IF carriers = <<>> THEN flat.rows[i].token_type = Null
                ELSE flat.rows[i].token_type \in TypesIn(carriers[Len(carriers)], p)

\* A typed leaf is followed, in a later tree, by a leaf of the same path
\* without a $type, and the row has kept the type.
C16_Witness ==
    /\ fpc = "flattened"
    /\ \E i \in 1..Len(flat.rows) :
          LET p == flat.rows[i].key_path
              carriers == TypeCarriers(p)
          IN  /\ carriers # <<>>
              /\ carriers[Len(carriers)] # "ru"
              /\ LeavesAt(files.ru, p) # {}
              /\ flat.rows[i].token_type \in TypesIn(carriers[Len(carriers)], p)

\* The group nodes of a document that carry $extensions, with their dotted
\* paths: the objects without $value, reached through objects without
\* $value, never through a property named $extensions.
RECURSIVE FoundGroups(_, _)
FoundGroups(node, prefix) ==
    UNION {LET e == node.ents[i]
               path == IF prefix = <<>> THEN e.k ELSE prefix \o <<".">> \o e.k
           IN  IF e.k = K_extensions \/ e.v.kind # "obj" \/ Has(e.v, K_value) THEN {}
               ELSE (IF Truthy(Get(e.v, K_extensions))
                     THEN {[path |-> path, extensions |-> Get(e.v, K_extensions)]}
                     ELSE {})
                    \cup FoundGroups(e.v, path) : i \in 1..Len(node.ents)}

GroupsIn(json) == IF json = Null THEN {} ELSE FoundGroups(json, <<>>)

ExtensionsAtPath(json, p) == {g.extensions : g \in {h \in GroupsIn(json) : h.path = p}}

\* The languages, in processing order, whose tree has a group with
\* $extensions at path p.
GroupCarriers(p) == SelectSeq(Langs, LAMBDA l : ExtensionsAtPath(FileOf(l), p) # {})

\* C17: group extensions while flattening: for every non-leaf path that
\* carries $extensions in at least one language tree there is exactly one
\* GroupExtension, holding the $extensions of the last tree in the order
\* az, en, ru that carries it; the descendants of a group node are
\* flattened whether or not the group carries $extensions.
C17_GroupExtensions ==
    fpc = "flattened" =>
        LET ges == flat.groupExtensions
        IN  /\ \A i, j \in 1..Len(ges) : ges[i].group_path = ges[j].group_path => i = j
            /\ {ges[i].group_path : i \in 1..Len(ges)}
                   = UNION {{g.path : g \in GroupsIn(FileOf(l))} : l \in LangSet}
            /\ \A i \in 1..Len(ges) :
                  LET carriers == GroupCarriers(ges[i].group_path)
                  IN  ges[i].extensions
                          \in ExtensionsAtPath(FileOf(carriers[Len(carriers)]),
                                               ges[i].group_path)
            /\ \A l \in LangSet : PathsOf(FileOf(l)) \subseteq RowPaths(flat.rows)

\* Two trees carry different $extensions on one group, the record holds
\* the later one, and a group without $extensions has its leaf flattened.
C17_Witness ==
    /\ fpc = "flattened"
    /\ Len(flat.groupExtensions) = 1
    /\ LET ge == flat.groupExtensions[1]
           carriers == GroupCarriers(ge.group_path)
       IN  /\ Len(carriers) >= 2
           /\ ge.extensions \notin ExtensionsAtPath(FileOf(carriers[1]), ge.group_path)
           /\ \E l \in LangSet :
                 /\ GroupsIn(FileOf(l)) = {}
                 /\ Get(FileOf(l), K_a).kind = "obj"
                 /\ ~Has(Get(FileOf(l), K_a), K_value)
                 /\ K_a_b \in PathsOf(FileOf(l))

(***************************************************************************)
(* Properties of storage and the table view.                               *)
(***************************************************************************)
\* the persisted row with this id before a step, and after it
StoredWithId(db, id) == db[CHOOSE i \in 1..Len(db) : db[i].id = id]

StoredIds(db) == {db[i].id : i \in 1..Len(db)}

\* C18: original_key is set once.  In every step, a persisted row whose
\* key_path changes gets as original_key the key_path it had just before
\* the step if it had no original_key yet, and keeps its original_key
\* otherwise; a row whose key_path does not change keeps its original_key;
\* and a row new in the table has none.
C18_OriginalKeySetOnce ==
    [][(\A id \in StoredIds(stored) \cap StoredIds(stored') :
            LET old == StoredWithId(stored, id)
                new == StoredWithId(stored', id)
            IN  new.original_key =
                    IF old.original_key = Null /\ new.key_path # old.key_path
                    THEN Str(old.key_path)
                    ELSE old.original_key)
       /\ (\A fresh \in StoredIds(stored') \ StoredIds(stored) :
            StoredWithId(stored', fresh).original_key = Null)]_vars

\* a row uploaded as A, renamed to a by an accepted fix and then to b by a
\* manual edit, still records A
C18_Witness ==
    \E i \in 1..Len(stored) :
        /\ stored[i].original_key = Str(K_A)
        /\ stored[i].key_path = K_b

\* C19: key_path is never empty.  Every persisted row and every row of the
\* in-memory list has a non-empty key_path.
C19_KeyPathNonEmpty ==
    /\ \A i \in 1..Len(stored) : stored[i].key_path # <<>>
    /\ \A i \in 1..Len(listed) : listed[i].key_path # <<>>

\* the key paths a rename of the shown row t can ask for: what a user
\* types, and the fix the linter suggests for t
RenamesOffered(t) ==
    EditValues \cup (IF analyzeKeyIssues(t.key_path) = Null THEN {}
                     ELSE {analyzeKeyIssues(t.key_path).keyPath})

UniqueKeyPaths ==
    \A i, j \in 1..Len(stored) : i # j => stored[i].key_path # stored[j].key_path

\* the rows of a list with this id, by key_path and original_key
ShownAs(prev, id) ==
    {<<prev[i].key_path, prev[i].original_key>> :
        i \in {n \in 1..Len(prev) : prev[n].id = id}}

\* C20: key_path is unique per project.  No two persisted rows share a
\* key_path; and a rename of a shown row onto a key_path that another
\* persisted row holds is rejected, changes nothing in the table and leaves
\* the row's key_path and original_key in the in-memory list as they were.
C20_UniqueKeyPath ==
    /\ UniqueKeyPaths
    /\ \A i \in 1..Len(listed) :
        \A kp \in RenamesOffered(listed[i]) :
            (\E n \in 1..Len(stored) :
                stored[n].id # listed[i].id /\ stored[n].key_path = kp)
            => LET outcome == RenameOutcome(stored, listed, listed[i], kp)
               IN  /\ outcome.error
                   /\ outcome.stored = stored
                   /\ ShownAs(outcome.listed, listed[i].id) = ShownAs(listed, listed[i].id)

\* rows A and a are persisted and shown, and the fix the linter suggests
\* for A is the key path of the other row
C20_Witness ==
    /\ Len(stored) = MaxStoreIds
    /\ \E i \in 1..Len(listed) :
        /\ listed[i].key_path = K_A
        /\ analyzeKeyIssues(K_A) # Null
        /\ \E n \in 1..Len(stored) :
            /\ stored[n].id # listed[i].id
            /\ stored[n].key_path = analyzeKeyIssues(K_A).keyPath

\* no row of the export lies under the path of group extension g: the rows
\* under it, if there were any, have been deleted
Childless(g) == ~GroupOfRows(g)

\* a step that removes rows from the translations table leaves the
\* group_extensions table as it is
DeletionKeepsExtensions ==
    [][StoredIds(stored') # StoredIds(stored) /\ StoredIds(stored') \subseteq StoredIds(stored)
          => storedExts' = storedExts]_vars

\* whenever buildFigmaJson returns, every group extension without rows
\* under its path is in the output at its path
StaleExtensionsKept ==
    (bpc = "figma" /\ figma # Throw) =>
        \A g \in 1..Len(groups) : Childless(g) => ExtensionsAt(g)

\* C21: stale group extensions.  A Figma export of a non-empty row list
\* emits, for every group extension record that has no row under its
\* group_path any more, that group path with the record's $extensions.
C21_StaleExtensionsEmitted ==
    (bpc = "figma" /\ tokens # <<>>) =>
        \A g \in 1..Len(groups) :
            Childless(g) => (figma # Throw /\ ExtensionsAt(g))

LangPos(l) == CHOOSE i \in 1..Len(Langs) : Langs[i] = l

\* the position of the first row whose value for language l is exactly v
FirstHolder(ts, l, v) ==
    CHOOSE i \in 1..Len(ts) :
        /\ ValueOf(ts[i], l) = Str(v)
        /\ \A j \in 1..(i - 1) : ValueOf(ts[j], l) # Str(v)

\* the key paths of the rows whose value for language l is exactly v, in
\* row order
HolderPaths(ts, l, v) ==
    LET held == SelectSeq(ts, LAMBDA t : ValueOf(t, l) = Str(v))
    IN  [i \in 1..Len(held) |-> held[i].key_path]

\* C22: order of duplicate groups.  The groups come by language in the
\* order az, en, ru; two groups of one language come in the order of the
\* first rows holding their values; and the keyPaths of a group are the key
\* paths of the rows holding its value, in row order.
C22_GroupOrder ==
    dpc = "detected" =>
        /\ \A i, j \in 1..Len(duplicates) :
              i < j =>
                  \/ LangPos(duplicates[i].language) < LangPos(duplicates[j].language)
                  \/ /\ duplicates[i].language = duplicates[j].language
                     /\ FirstHolder(translations, duplicates[i].language, duplicates[i].value)
                          < FirstHolder(translations, duplicates[j].language, duplicates[j].value)
        /\ \A i \in 1..Len(duplicates) :
              duplicates[i].keyPaths =
                  HolderPaths(translations, duplicates[i].language, duplicates[i].value)

\* two groups of one language, the first of which is completed by a row
\* that comes after every row of the second
C22_Witness ==
    /\ dpc = "detected"
    /\ \E i, j \in 1..Len(duplicates) :
          /\ i < j
          /\ duplicates[i].language = duplicates[j].language
          /\ \E n \in 1..Len(translations) :
                /\ ValueOf(translations[n], duplicates[i].language) = Str(duplicates[i].value)
                /\ \A m \in 1..Len(translations) :
                      ValueOf(translations[m], duplicates[j].language) = Str(duplicates[j].value)
                          => m < n
          /\ duplicates[i].keyPaths[1] # duplicates[i].keyPaths[Len(duplicates[i].keyPaths)]

\* the translations table after handleUpload has upserted the rows of the
\* picked files
Uploaded(db, n, picked) ==
    UpsertRows(db, UploadRows(flattenJsons(picked.az, picked.en, picked.ru).rows), n)

\* C23: uploading a subset of languages keeps the others.  For every upload
\* of files for some languages only, a row persisted before the upload has
\* afterwards, in every language that was not uploaded, the value it had;
\* and, these files carrying no $type and no variable id, the token_type
\* and figma_variable_id it had.
C23_OtherLanguagesKept ==
    currentView = "upload" =>
        \A picked \in SubsetTrees :
            \A id \in StoredIds(stored) :
                LET old == StoredWithId(stored, id)
                    new == StoredWithId(Uploaded(stored, minted, picked), id)
                IN  /\ \A l \in LangSet :
                          picked[l] = Null => ValueOf(new, l) = ValueOf(old, l)
                    /\ new.token_type = old.token_type
                    /\ new.figma_variable_id = old.figma_variable_id

DistinctKeyPaths(ts) ==
    \A i, j \in 1..Len(ts) : i # j => ts[i].key_path # ts[j].key_path

\* row i's leaf is at its dotted path in the subtree of language l, with
\* the row's value
LeafInPlace(i, l) ==
    LET n == GetPath(devTree[l], Split(tokens[i].key_path))
    IN  n.kind = "obj" /\ Has(n, K_value) /\ Get(n, K_value) = ValueOf(tokens[i], l)

\* C24: no row is lost on export (of the calls that return).  For a row
\* list with pairwise distinct key paths, the result of buildDeveloperJson
\* has, for every row and every language in which the row's value is not
\* null, a leaf with that $value at the row's dotted path in the language's
\* subtree.
C24_NoRowLost ==
    (bpc = "returned" /\ DistinctKeyPaths(tokens)) =>
        \A i \in 1..Len(tokens) : \A l \in LangSet :
            ValueOf(tokens[i], l) # Null => LeafInPlace(i, l)

(***************************************************************************)
(* Properties of the session.                                              *)
(***************************************************************************)
\* C25: rows shown belong to the selected project.  Once no fetch is in
\* flight, every row of the in-memory list is a row of the selected
\* project.
C25_RowsOfSelectedProject ==
    fetches = {} =>
        \A i \in 1..Len(listed) : listed[i].project_id = selectedProjectId

\* C26: no duplicated rows in memory.  The in-memory list never holds two
\* entries with the same id.
C26_NoDuplicateIds ==
    \A i, j \in 1..Len(listed) : i # j => listed[i].id # listed[j].id

\* C27: a failed upload persists nothing.  A handleUpload that ends with
\* the status 'Upload failed' (the view stays on the upload page:
\* onUploadComplete is not called) leaves the translations table and the
\* group_extensions table as they were.
C27_FailedUploadPersistsNothing ==
    [][(/\ currentView = "upload"
        /\ currentView' = "upload"
        /\ uploadStatus' = "Upload failed")
       => (stored' = stored /\ storedExts' = storedExts)]_vars

C29_NeverReserved ==
    /\ kpc = "optimized" => opt.optimized \notin FORBIDDEN_KEYWORDS
    /\ (kpc = "analyzed" /\ issue # Null) =>
           LET segments == Split(issue.keyPath)
           IN  segments[Len(segments)] \notin FORBIDDEN_KEYWORDS

\* i-D, which is cleaned to the reserved word id and optimized to
\* common_fix_id
C29_Witness ==
    /\ kpc = "optimized"
    /\ key = <<"i", "-", "D">>
    /\ opt.optimized = S_common_fix \o <<"i", "d">>
====
